---- MODULE Spec2Model ----
(***************************************************************************)
(* A model of confluent.docker_utils.compose: ComposeProject reconciling a *)
(* declared service topology against a container runtime that is shared by *)
(* several ComposeProject objects ("engine instances").                    *)
(*                                                                         *)
(* Strings that the code splits or joins on '_' (project names, service    *)
(* names, container names, network names) are sequences of '_'-free parts: *)
(* "a_b_c_1" is <<"a", "b", "c", "1">>, so f"{p}_{s}_1" is p \o s \o <<"1">>*)
(* and str.split('_') is the identity on the sequence.                     *)
(*                                                                         *)
(* Every call on the runtime's control surface is one atomic step; the     *)
(* code between two such calls is local and belongs to the step before it. *)
(***************************************************************************)
EXTENDS Integers, Sequences, FiniteSets, TLC

\* ------------------------------------------------------------------ bounds
\* container processes that end by themselves in one behaviour
MaxExits == 1
\* operations (up, down, remove_stopped) begun in one behaviour when several
\* instances share the runtime
MaxOps == 2
\* operations begun in one behaviour when one instance is alone on the runtime
MaxSeqOps == 4
\* operations begun in one behaviour when an up() is followed by teardowns of
\* several instances
MaxTeardownOps == 3
\* operations begun in one behaviour when the instances take turns and
\* containers(), get_container() and name_without_project are called in between
MaxQueryOps == 3
\* containers that an actor other than the engine has in the runtime at a time
MaxForeign == 1
MaxTimeout == 4       \* wait_for_service: the timeouts tried, in seconds
MaxConnectTime == 1   \* the longest a connection attempt takes, in seconds
MaxOversleep == 1     \* the most time.sleep(1) takes beyond its second

\* --------------------------------------------------------------- constants
LABEL_PROJECT == "com.docker.compose.project"
LABEL_SERVICE == "com.docker.compose.service"
STATUS_RUNNING == "running"
STATUS_EXITED == "exited"
NETWORK_DRIVER_BRIDGE == "bridge"
\* logs(...)[-500:]
LOG_TAIL == 500

\* Python's None where the other values are part-sequences
None == <<>>

\* the ComposeProject objects sharing the runtime
Instances == {"e1", "e2"}

\* project names: "a" and "a_b"
Projects == {<<"a">>, <<"a", "b">>}

\* The topologies a compose file of each project may declare, in declaration
\* order.  "a": b_c and d (d with an explicit network_mode).  "a_b": c (with a
\* hostname) and x, which has no usable image: an empty one, or none at all
\* (a build section instead).
Topologies(p) ==
    IF p = <<"a">>
    THEN { << [name |-> <<"b", "c">>, spec |-> [image |-> "busybox"]],
              [name |-> <<"d">>, spec |-> [image |-> "busybox", network_mode |-> <<"host">>]] >> }
    ELSE { << [name |-> <<"c">>, spec |-> [image |-> "busybox", hostname |-> <<"h">>]],
              [name |-> <<"x">>, spec |-> [image |-> ""]] >>,
           << [name |-> <<"x">>, spec |-> [build |-> "."]],
              [name |-> <<"c">>, spec |-> [image |-> "busybox", hostname |-> <<"h">>]] >> }

DefaultTopology(p) == CHOOSE c \in Topologies(p) : \A k \in 1..Len(c) : "image" \in DOMAIN c[k].spec

VARIABLES
    containers,   \* runtime: the set of container records
    networks,     \* runtime: the set of network records
    exits,        \* container processes that ended by themselves so far
    config,       \* project -> ComposeConfig.services, as a sequence of entries
    proj,         \* instance -> ComposeProject.name
    netCache,     \* instance -> ComposeProject._network
    op,           \* instance -> the operation in progress, or the last one
    requested,    \* instance -> up(): service_list as up() computed it
    service_list, \* instance -> up(): the services still to start, current first
    handles,      \* instance -> down()/remove_stopped(): handles still to visit
    cur,          \* instance -> the container or network handle in hand
    pc,           \* instance -> where in the operation the instance is
    res,          \* instance -> how the operation ended
    did,          \* instance -> the runtime calls the operation has made
    prev,         \* instance -> the operation before this one, how it ended, and
                  \*             the container whose status check failed in it
    nops,         \* operations begun so far
    calc          \* the last call of a function that changes nothing, and its result

runtimeVars == <<containers, networks, exits>>
\* what no operation of the engine on the runtime changes
fixedVars == <<config, proj, calc>>
localVars == <<netCache, op, requested, service_list, handles, cur, pc, res, did, prev, nops>>
vars == <<containers, networks, exits, config, proj,
          netCache, op, requested, service_list, handles, cur, pc, res, did, prev, nops, calc>>

\* ----------------------------------------------------------------- helpers
RECURSIVE SortDesc(_)
\* the runtime lists containers newest first
SortDesc(S) ==
    IF S = {} THEN <<>>
    ELSE LET m == CHOOSE c \in S : \A d \in S : d.id <= c.id
         IN <<m>> \o SortDesc(S \ {m})

Range(s) == {s[k] : k \in 1..Len(s)}

\* dict.get(key): None when the key is absent
Get(d, k) == IF k \in DOMAIN d THEN d[k] ELSE None

NoHandle == [id |-> 0, name |-> None, labels |-> <<>>]

\* what a handle keeps of the container or network it was fetched for
Handle(c) == [id |-> c.id, name |-> c.name, labels |-> c.labels]

\* results of an operation
Pending == [kind |-> "pending", why |-> "", from |-> 0, to |-> 0]
Ok == [kind |-> "ok", why |-> "", from |-> 0, to |-> 0]
Err(kind, why) == [kind |-> kind, why |-> why, from |-> 0, to |-> 0]

\* one runtime call in the log of an operation: whether it returned normally and
\* whether it changed the runtime
Call(call, name, ok, changed) == [call |-> call, name |-> name, ok |-> ok, changed |-> changed]

\* no function called yet
NoCalc == [fn |-> "none"]

\* ------------------------------------------------------------ the topology
services(p) == config[p]

ServiceNames(p) == {services(p)[k].name : k \in 1..Len(services(p))}

service_keys(p) == [k \in 1..Len(services(p)) |-> services(p)[k].name]

declared(p, name) == name \in ServiceNames(p)

get_service(p, name) ==
    (CHOOSE e \in Range(services(p)) : e.name = name).spec

\* ------------------------------------------------------- names and kwargs
network_name(p) == p \o <<"default">>

container_name(p, service_name) == p \o service_name \o <<"1">>

PASSTHROUGH_KEYS == {"network_mode", "working_dir", "hostname", "entrypoint", "user", "tty", "stdin_open"}

\* _parse_service_config keeps the keys it knows and drops the others (build,
\* depends_on, ...).  image and the passthrough keys are copied as they are; no
\* topology here declares command, environment, ports or volumes.
parse_service_config(service_config) ==
    [k \in (DOMAIN service_config)
               \cap ({"image", "command", "environment", "ports", "volumes"} \cup PASSTHROUGH_KEYS)
        |-> service_config[k]]

has_valid_image(container_config) ==
    "image" \in DOMAIN container_config /\ container_config["image"] # ""

build_run_kwargs_no_name(p, service_name, container_config, network) ==
    LET base == ("detach" :> TRUE)
                @@ ("labels" :> ((LABEL_PROJECT :> p) @@ (LABEL_SERVICE :> service_name)))
        net == IF "network_mode" \notin DOMAIN container_config
               THEN ("network" :> network.name)
                    @@ (IF "hostname" \notin DOMAIN container_config
                        THEN ("hostname" :> service_name) ELSE <<>>)
               ELSE <<>>
    IN net @@ container_config @@ base

build_run_kwargs_no_service_label(p, service_name, container_config, network) ==
    LET base == ("name" :> container_name(p, service_name))
                @@ ("detach" :> TRUE)
                @@ ("labels" :> (LABEL_PROJECT :> p))
        net == IF "network_mode" \notin DOMAIN container_config
               THEN ("network" :> network.name)
                    @@ (IF "hostname" \notin DOMAIN container_config
                        THEN ("hostname" :> service_name) ELSE <<>>)
               ELSE <<>>
    IN net @@ container_config @@ base

build_run_kwargs_always_network(p, service_name, container_config, network) ==
    LET base == ("name" :> container_name(p, service_name))
                @@ ("detach" :> TRUE)
                @@ ("labels" :> ((LABEL_PROJECT :> p) @@ (LABEL_SERVICE :> service_name)))
        net == ("network" :> network.name) @@ ("hostname" :> service_name)
    IN net @@ container_config @@ base

\* _build_run_kwargs past the image check: name, detach, labels, the parsed
\* config, and the project network and default hostname when the service sets no
\* network_mode
build_run_kwargs(p, service_name, container_config, network) ==
    LET base == ("name" :> container_name(p, service_name))
                @@ ("detach" :> TRUE)
                @@ ("labels" :> ((LABEL_PROJECT :> p) @@ (LABEL_SERVICE :> service_name)))
        net == IF "network_mode" \notin DOMAIN container_config
               THEN ("network" :> network.name)
                    @@ (IF "hostname" \notin DOMAIN container_config
                        THEN ("hostname" :> service_name) ELSE <<>>)
               ELSE <<>>
    IN net @@ container_config @@ base

\* -------------------------------------------------------------- the runtime
\* the name the runtime gives a container created without one
auto_name(id) == <<"auto", ToString(id)>>

\* the container the runtime creates for containers.run(**kwargs)
new_container(kwargs, id, status, creator) ==
    [id |-> id,
     name |-> IF "name" \in DOMAIN kwargs THEN kwargs["name"] ELSE auto_name(id),
     labels |-> kwargs["labels"],
     status |-> status,
     image |-> Get(kwargs, "image"),
     network |-> Get(kwargs, "network"),
     network_mode |-> Get(kwargs, "network_mode"),
     hostname |-> Get(kwargs, "hostname"),
     creator |-> creator]

\* The ids are the runtime's and opaque to the engine: an id that no container
\* (network) has and no handle carries stands for any new one.
new_container_id ==
    LET used == {c.id : c \in containers} \cup {cur[i].id : i \in Instances}
                \cup UNION {{handles[i][k].id : k \in 1..Len(handles[i])} : i \in Instances}
    IN CHOOSE id \in 1..(Cardinality(used) + 1) : id \notin used /\ \A k \in 1..(id - 1) : k \in used

networks_named(name) == {n \in networks : n.name = name}

containers_named(name) == {c \in containers : c.name = name}

container_with_id(id) == {c \in containers : c.id = id}

\* client.containers.list(all=..., filters=...): label is the (key, value) pair
\* of the label filter, status the status filter or None
containers_list(all, label, status) ==
    {c \in containers :
        /\ Get(c.labels, label[1]) = label[2]
        /\ (all \/ c.status = STATUS_RUNNING)
        /\ (status = None \/ c.status = status[1])}

\* an optional list argument (services of up(), service_names of containers()):
\* not given, which is None, or a list
NotGiven == [given |-> FALSE, list |-> <<>>]
Arg(list) == [given |-> TRUE, list |-> list]

\* Python's truth value of the argument: None and the empty list are false
Truthy(a) == a.given /\ a.list # <<>>

project_containers_any_status(p, service_names, stopped) ==
    LET all_containers == containers_list(TRUE, <<LABEL_PROJECT, p>>, None)
        result == IF Truthy(service_names)
                  THEN {c \in all_containers : Get(c.labels, LABEL_SERVICE) \in Range(service_names.list)}
                  ELSE all_containers
        sorted == SortDesc(result)
    IN [k \in 1..Len(sorted) |-> Handle(sorted[k])]

\* containers() that filters by whatever list is given, also the empty one
project_containers_empty_is_list(p, service_names, stopped) ==
    LET all_containers ==
            containers_list(stopped, <<LABEL_PROJECT, p>>,
                            IF stopped THEN None ELSE <<STATUS_RUNNING>>)
        result == IF service_names.given
                  THEN {c \in all_containers : Get(c.labels, LABEL_SERVICE) \in Range(service_names.list)}
                  ELSE all_containers
        sorted == SortDesc(result)
    IN [k \in 1..Len(sorted) |-> Handle(sorted[k])]

\* ComposeProject.containers(service_names, stopped): the handles it returns,
\* in the runtime's order: if service_names: filters by the service label
project_containers(p, service_names, stopped) ==
    LET all_containers ==
            containers_list(stopped, <<LABEL_PROJECT, p>>,
                            IF stopped THEN None ELSE <<STATUS_RUNNING>>)
        result == IF Truthy(service_names)
                  THEN {c \in all_containers : Get(c.labels, LABEL_SERVICE) \in Range(service_names.list)}
                  ELSE all_containers
        sorted == SortDesc(result)
    IN [k \in 1..Len(sorted) |-> Handle(sorted[k])]

\* ComposeContainer.name_without_project of a container of the runtime: the
\* service label when there is one, else the parts of the name between the
\* first and the last
name_without_project(c) ==
    LET service_label == Get(c.labels, LABEL_SERVICE)
        parts == c.name
    IN IF service_label # None THEN service_label
       ELSE IF Len(parts) >= 3 THEN SubSeq(parts, 2, Len(parts) - 1)
       ELSE IF Len(parts) = 2 THEN <<parts[2]>>
       ELSE c.name

\* what get_container() gives: a handle, or the error it raises
Found(h) == [ok |-> TRUE, handle |-> h]
NotRunning == [ok |-> FALSE, handle |-> NoHandle]

get_container_any_status(p, name) ==
    LET found == project_containers(p, Arg(<<name>>), TRUE)
    IN IF found = <<>> THEN NotRunning ELSE Found(found[1])

\* ComposeService.get_container
get_container(p, name) ==
    LET found == project_containers(p, Arg(<<name>>), FALSE)
    IN IF found = <<>> THEN NotRunning ELSE Found(found[1])

\* logs(...)[-500:] of a log of len characters, as the characters from+1..to
log_tail_unbounded(len) == [from |-> 0, to |-> len]

log_tail(len) == [from |-> IF len > LOG_TAIL THEN len - LOG_TAIL ELSE 0, to |-> len]

\* ------------------------------------------------------------- bookkeeping
Log(i, call) == did' = [did EXCEPT ![i] = Append(@, call)]

Finish(i, r) ==
    /\ res' = [res EXCEPT ![i] = r]
    /\ pc' = [pc EXCEPT ![i] = "idle"]

Begin(i, o, list, budget) ==
    /\ pc[i] = "idle"
    /\ nops < budget
    /\ nops' = nops + 1
    /\ prev' = [prev EXCEPT ![i] = [op |-> op[i], requested |-> requested[i], ok |-> res[i] = Ok,
                                     unverified |-> IF res[i].why = "exited_immediately"
                                                    THEN cur[i].name ELSE None]]
    /\ op' = [op EXCEPT ![i] = o]
    /\ requested' = [requested EXCEPT ![i] = list]
    /\ did' = [did EXCEPT ![i] = <<>>]

\* the services argument of up(): not given (None), or a list, also the empty
\* one and one of a service that no topology declares
UpArgs(p) ==
    {NotGiven, Arg(<<>>)}
    \cup {Arg(<<s>>) : s \in ServiceNames(p) \cup {<<"zz">>}}

\* --------------------------------------------------------------------- Init
\* Each instance is constructed for a project: both for one, or e1 for "a" and
\* e2 for "a_b" (the other way round is the same up to the names of the
\* instances).
InitEngine ==
    /\ containers = {}
    /\ networks = {}
    /\ exits = 0
    /\ proj \in {f \in [Instances -> Projects] : ~(f["e1"] = <<"a", "b">> /\ f["e2"] = <<"a">>)}
    /\ config \in {c \in [Projects -> UNION {Topologies(p) : p \in Projects}] :
                      \A p \in Projects :
                          /\ c[p] \in Topologies(p)
                          /\ (\A i \in Instances : proj[i] # p) => c[p] = DefaultTopology(p)}
    /\ netCache = [i \in Instances |-> NoHandle]
    /\ op = [i \in Instances |-> "none"]
    /\ requested = [i \in Instances |-> <<>>]
    /\ service_list = [i \in Instances |-> <<>>]
    /\ handles = [i \in Instances |-> <<>>]
    /\ cur = [i \in Instances |-> NoHandle]
    /\ pc = [i \in Instances |-> "idle"]
    /\ res = [i \in Instances |-> [kind |-> "none", why |-> "", from |-> 0, to |-> 0]]
    /\ did = [i \in Instances |-> <<>>]
    /\ prev = [i \in Instances |-> [op |-> "none", requested |-> <<>>, ok |-> FALSE, unverified |-> None]]
    /\ nops = 0

Init == InitEngine /\ calc = NoCalc

\* ----------------------------------------------------------------------- up
\* up(): service_list = services or list(self.config.services.keys())
up_service_list(p, a) == IF Truthy(a) THEN a.list ELSE service_keys(p)

up_begin_always_create(i, a, budget) ==
    /\ LET list == up_service_list(proj[i], a)
       IN /\ Begin(i, "up", list, budget)
          /\ service_list' = [service_list EXCEPT ![i] = list]
    /\ res' = [res EXCEPT ![i] = Pending]
    /\ pc' = [pc EXCEPT ![i] = "networks_create"]
    /\ UNCHANGED <<runtimeVars, fixedVars, netCache, handles, cur>>

\* up() with the services taken in another order than the one given
up_begin_reversed(i, a, budget) ==
    /\ LET list == up_service_list(proj[i], a)
       IN /\ Begin(i, "up", list, budget)
          /\ service_list' = [service_list EXCEPT ![i] = [k \in 1..Len(list) |-> list[Len(list) + 1 - k]]]
    /\ res' = [res EXCEPT ![i] = Pending]
    /\ pc' = [pc EXCEPT ![i] = IF netCache[i].id # 0 THEN "containers_get" ELSE "networks_get"]
    /\ UNCHANGED <<runtimeVars, fixedVars, netCache, handles, cur>>

\* up(services): service_list = services or list(self.config.services.keys());
\* _get_or_create_network returns the cached handle when there is one
up_begin(i, a, budget) ==
    /\ LET list == up_service_list(proj[i], a)
       IN /\ Begin(i, "up", list, budget)
          /\ service_list' = [service_list EXCEPT ![i] = list]
    /\ res' = [res EXCEPT ![i] = Pending]
    /\ pc' = [pc EXCEPT ![i] = IF netCache[i].id # 0 THEN "containers_get" ELSE "networks_get"]
    /\ UNCHANGED <<runtimeVars, fixedVars, netCache, handles, cur>>

\* _get_or_create_network: self.client.networks.get(self.network_name)
networks_get(i) ==
    /\ pc[i] = "networks_get"
    /\ LET name == network_name(proj[i])
           found == networks_named(name)
       IN IF found # {}
          THEN /\ netCache' = [netCache EXCEPT ![i] = Handle(CHOOSE n \in found : TRUE)]
               /\ pc' = [pc EXCEPT ![i] = "containers_get"]
               /\ Log(i, Call("networks.get", name, TRUE, FALSE))
          ELSE /\ pc' = [pc EXCEPT ![i] = "networks_create"]
               /\ Log(i, Call("networks.get", name, FALSE, FALSE))
               /\ UNCHANGED netCache
    /\ UNCHANGED <<runtimeVars, fixedVars, op, requested, service_list, handles, cur, res, prev, nops>>

\* _get_or_create_network: self.client.networks.create(...) after NotFound; the
\* runtime refuses a second network of the same name, or fails for a reason of
\* its own (fault), and neither error is caught
networks_create(i) ==
    /\ pc[i] = "networks_create"
    /\ \E fault \in BOOLEAN :
       LET name == network_name(proj[i])
       IN IF fault
          THEN /\ Finish(i, Err("APIError", "daemon"))
               /\ Log(i, Call("networks.create", name, FALSE, FALSE))
               /\ UNCHANGED <<networks, netCache>>
          ELSE IF networks_named(name) # {}
          THEN /\ Finish(i, Err("APIError", "network_exists"))
               /\ Log(i, Call("networks.create", name, FALSE, FALSE))
               /\ UNCHANGED <<networks, netCache>>
          ELSE /\ LET used == {n.id : n \in networks} \cup {cur[j].id : j \in Instances}
                                  \cup {netCache[j].id : j \in Instances}
                      id == CHOOSE id \in 1..(Cardinality(used) + 1) :
                                id \notin used /\ \A k \in 1..(id - 1) : k \in used
                      network == [id |-> id, name |-> name, driver |-> NETWORK_DRIVER_BRIDGE,
                                  labels |-> (LABEL_PROJECT :> proj[i]), creator |-> i]
                  IN /\ networks' = networks \cup {network}
                     /\ netCache' = [netCache EXCEPT ![i] = Handle(network)]
               /\ pc' = [pc EXCEPT ![i] = "containers_get"]
               /\ res' = res
               /\ Log(i, Call("networks.create", name, TRUE, TRUE))
    /\ UNCHANGED <<containers, exits, fixedVars, op, requested, service_list, handles, cur, prev, nops>>

\* up(): the current service is started; on to the next one, or return
service_done(i) ==
    /\ service_list' = [service_list EXCEPT ![i] = Tail(@)]
    /\ IF Tail(service_list[i]) = <<>>
       THEN Finish(i, Ok)
       ELSE /\ pc' = [pc EXCEPT ![i] = "containers_get"]
            /\ res' = res

no_existing_unchecked(i) ==
    LET p == proj[i]
        s == Head(service_list[i])
    IN /\ IF ~declared(p, s)
          THEN Finish(i, Err("ValueError", "no_service"))
          ELSE /\ pc' = [pc EXCEPT ![i] = "containers_run"]
               /\ res' = res
       /\ UNCHANGED service_list

\* _start_service past _get_existing_container returning None: get_service, then
\* _build_run_kwargs up to the image check
no_existing(i) ==
    LET p == proj[i]
        s == Head(service_list[i])
    IN /\ IF ~declared(p, s)
          THEN Finish(i, Err("ValueError", "no_service"))
          ELSE IF ~has_valid_image(parse_service_config(get_service(p, s)))
          THEN Finish(i, Err("ValueError", "no_image"))
          ELSE /\ pc' = [pc EXCEPT ![i] = "containers_run"]
               /\ res' = res
       /\ UNCHANGED service_list

needs_start_always(existing) == TRUE

\* _get_existing_container: if existing.status != STATUS_RUNNING
needs_start(existing) == existing.status # STATUS_RUNNING

\* _get_existing_container: self.client.containers.get(container_name)
containers_get(i) ==
    /\ pc[i] = "containers_get"
    /\ LET name == container_name(proj[i], Head(service_list[i]))
           found == containers_named(name)
       IN IF found # {}
          THEN LET existing == CHOOSE c \in found : TRUE
               IN /\ cur' = [cur EXCEPT ![i] = Handle(existing)]
                  /\ Log(i, Call("containers.get", name, TRUE, FALSE))
                  /\ IF needs_start(existing)
                     THEN /\ pc' = [pc EXCEPT ![i] = "existing_start"]
                          /\ UNCHANGED <<res, service_list>>
                     ELSE service_done(i)
          ELSE /\ Log(i, Call("containers.get", name, FALSE, FALSE))
               /\ no_existing(i)
               /\ UNCHANGED cur
    /\ UNCHANGED <<runtimeVars, fixedVars, netCache, op, requested, handles, prev, nops>>

\* _get_existing_container: existing.start() on a handle whose status was not
\* running when it was fetched.  The runtime answers 404, which is NotFound,
\* when the container is gone and also when the network it is attached to is
\* gone; NotFound is caught and the container then counts as absent.
existing_start(i) ==
    /\ pc[i] = "existing_start"
    /\ LET found == container_with_id(cur[i].id)
           name == cur[i].name
       IN IF found = {}
          THEN /\ Log(i, Call("start", name, FALSE, FALSE))
               /\ no_existing(i)
               /\ UNCHANGED containers
          ELSE LET c == CHOOSE c \in found : TRUE
               IN IF c.network # None /\ networks_named(c.network) = {}
                  THEN /\ Log(i, Call("start", name, FALSE, FALSE))
                       /\ no_existing(i)
                       /\ UNCHANGED containers
                  ELSE /\ containers' = (containers \ {c}) \cup {[c EXCEPT !.status = STATUS_RUNNING]}
                       /\ Log(i, Call("start", name, TRUE, c.status # STATUS_RUNNING))
                       /\ service_done(i)
    /\ UNCHANGED <<networks, exits, fixedVars, netCache, op, requested, handles, cur, prev, nops>>

run_failed_swallowed(why) == Ok

\* _start_service: except docker.errors.APIError as err: raise RuntimeError(...)
run_failed(why) == Err("RuntimeError", why)

\* _start_service: self.client.containers.run(**run_kwargs); an APIError becomes
\* a RuntimeError.  The runtime refuses a name in use; it creates the container
\* and then fails to start it when its network does not exist; or it fails for a
\* reason of its own (fault) and creates nothing.  run_kwargs is built before
\* the call from self._network, which up() has set by then.
containers_run(i) ==
    /\ pc[i] = "containers_run"
    /\ \E fault \in BOOLEAN :
       LET p == proj[i]
           s == Head(service_list[i])
           run_kwargs == build_run_kwargs(p, s, parse_service_config(get_service(p, s)), netCache[i])
           name == IF "name" \in DOMAIN run_kwargs THEN run_kwargs["name"] ELSE auto_name(new_container_id)
       IN IF fault
          THEN /\ Log(i, Call("containers.run", name, FALSE, FALSE))
               /\ Finish(i, run_failed("daemon"))
               /\ UNCHANGED <<containers, cur>>
          ELSE IF containers_named(name) # {}
          THEN /\ Log(i, Call("containers.run", name, FALSE, FALSE))
               /\ Finish(i, run_failed("name_in_use"))
               /\ UNCHANGED <<containers, cur>>
          ELSE /\ IF "network" \in DOMAIN run_kwargs /\ networks_named(run_kwargs["network"]) = {}
                  THEN /\ containers' = containers \cup
                              {new_container(run_kwargs, new_container_id, "created", i)}
                       /\ Log(i, Call("containers.run", name, FALSE, TRUE))
                       /\ Finish(i, run_failed("network_not_found"))
                       /\ UNCHANGED cur
                  ELSE LET container == new_container(run_kwargs, new_container_id, STATUS_RUNNING, i)
                       IN /\ containers' = containers \cup {container}
                          /\ cur' = [cur EXCEPT ![i] = Handle(container)]
                          /\ Log(i, Call("containers.run", name, TRUE, TRUE))
                          /\ pc' = [pc EXCEPT ![i] = "verify_reload"]
                          /\ res' = res
    /\ UNCHANGED <<networks, exits, fixedVars, netCache, op, requested, service_list, handles, prev, nops>>

\* a status check that, on failure, takes down what the up() had started
verify_reload_rolling_back(i) ==
    /\ pc[i] = "verify_reload"
    /\ LET found == container_with_id(cur[i].id)
       IN IF found = {} \/ \E c \in found : c.status # STATUS_RUNNING
          THEN /\ containers' = {c \in containers : Get(c.labels, LABEL_PROJECT) # proj[i]}
               /\ Log(i, Call("reload", cur[i].name, TRUE, TRUE))
               /\ Finish(i, Err("RuntimeError", "exited_immediately"))
               /\ UNCHANGED service_list
          ELSE /\ Log(i, Call("reload", cur[i].name, TRUE, FALSE))
               /\ service_done(i)
               /\ UNCHANGED containers
    /\ UNCHANGED <<networks, exits, fixedVars, netCache, op, requested, handles, cur, prev, nops>>

\* _verify_container_running: container.reload() and the status test
verify_reload(i) ==
    /\ pc[i] = "verify_reload"
    /\ LET found == container_with_id(cur[i].id)
       IN IF found = {}
          THEN /\ Log(i, Call("reload", cur[i].name, FALSE, FALSE))
               /\ Finish(i, Err("NotFound", "reload"))
               /\ UNCHANGED service_list
          ELSE /\ Log(i, Call("reload", cur[i].name, TRUE, FALSE))
               /\ IF (CHOOSE c \in found : TRUE).status # STATUS_RUNNING
                  THEN /\ pc' = [pc EXCEPT ![i] = "verify_logs"]
                       /\ UNCHANGED <<res, service_list>>
                  ELSE service_done(i)
    /\ UNCHANGED <<runtimeVars, fixedVars, netCache, op, requested, handles, cur, prev, nops>>

\* a status check that removes the container it found not running
verify_logs_removing(i) ==
    /\ pc[i] = "verify_logs"
    /\ containers' = containers \ container_with_id(cur[i].id)
    /\ Log(i, Call("logs", cur[i].name, TRUE, TRUE))
    /\ Finish(i, Err("RuntimeError", "exited_immediately"))
    /\ UNCHANGED <<networks, exits, fixedVars, netCache, op, requested, service_list, handles, cur, prev, nops>>

\* _verify_container_running: container.logs()...[-500:] and the RuntimeError
\* that carries it
verify_logs(i) ==
    /\ pc[i] = "verify_logs"
    /\ IF container_with_id(cur[i].id) = {}
       THEN /\ Log(i, Call("logs", cur[i].name, FALSE, FALSE))
            /\ Finish(i, Err("NotFound", "logs"))
       ELSE /\ Log(i, Call("logs", cur[i].name, TRUE, FALSE))
            /\ \E len \in {0, 499, 500, 501} :
                  Finish(i, [kind |-> "RuntimeError", why |-> "exited_immediately",
                             from |-> log_tail(len).from, to |-> log_tail(len).to])
    /\ UNCHANGED <<runtimeVars, fixedVars, netCache, op, requested, service_list, handles, cur, prev, nops>>

\* --------------------------------------------------------------------- down
down_targets_running(p) == project_containers(p, NotGiven, FALSE)

\* down(): for container in self.containers(stopped=True)
down_targets(p) == project_containers(p, NotGiven, TRUE)

remove_network_not_found_raised == Err("NotFound", "networks.get")

\* _remove_network: except (NotFound, APIError): pass
remove_network_not_found == Ok

\* down(): self.containers(stopped=True)
down_begin(i, budget) ==
    /\ Begin(i, "down", <<>>, budget)
    /\ LET listed == down_targets(proj[i])
       IN /\ handles' = [handles EXCEPT ![i] = listed]
          /\ pc' = [pc EXCEPT ![i] = IF listed = <<>> THEN "remove_network_get" ELSE "down_stop"]
    /\ res' = [res EXCEPT ![i] = Pending]
    /\ UNCHANGED <<runtimeVars, fixedVars, netCache, service_list, cur>>

\* down(): container.stop() on the next handle; APIError (NotFound is one) is
\* swallowed
down_stop(i) ==
    /\ pc[i] = "down_stop"
    /\ LET h == Head(handles[i])
           found == container_with_id(h.id)
       IN IF found = {}
          THEN /\ Log(i, Call("stop", h.name, FALSE, FALSE))
               /\ UNCHANGED containers
          ELSE LET c == CHOOSE c \in found : TRUE
               IN /\ containers' = (containers \ {c}) \cup
                         {[c EXCEPT !.status = IF @ = STATUS_RUNNING THEN STATUS_EXITED ELSE @]}
                  /\ Log(i, Call("stop", h.name, TRUE, c.status = STATUS_RUNNING))
    /\ pc' = [pc EXCEPT ![i] = "down_remove"]
    /\ UNCHANGED <<networks, exits, fixedVars, netCache, op, requested,
                   service_list, handles, cur, res, prev, nops>>

down_remove_raising(i) ==
    /\ pc[i] = "down_remove"
    /\ LET h == Head(handles[i])
           found == container_with_id(h.id)
       IN IF found = {}
          THEN /\ Log(i, Call("remove", h.name, FALSE, FALSE))
               /\ Finish(i, Err("NotFound", "remove"))
               /\ UNCHANGED <<containers, handles>>
          ELSE /\ containers' = containers \ found
               /\ Log(i, Call("remove", h.name, TRUE, TRUE))
               /\ handles' = [handles EXCEPT ![i] = Tail(@)]
               /\ pc' = [pc EXCEPT ![i] = IF Tail(handles[i]) = <<>> THEN "remove_network_get" ELSE "down_stop"]
               /\ res' = res
    /\ UNCHANGED <<networks, exits, fixedVars, netCache, op, requested,
                   service_list, cur, prev, nops>>

\* down(): container.remove(force=True, v=remove_volumes) on the same handle,
\* then the next handle or _remove_network
down_remove(i) ==
    /\ pc[i] = "down_remove"
    /\ LET h == Head(handles[i])
           found == container_with_id(h.id)
       IN IF found = {}
          THEN /\ Log(i, Call("remove", h.name, FALSE, FALSE))
               /\ UNCHANGED containers
          ELSE /\ containers' = containers \ found
               /\ Log(i, Call("remove", h.name, TRUE, TRUE))
    /\ handles' = [handles EXCEPT ![i] = Tail(@)]
    /\ pc' = [pc EXCEPT ![i] = IF Tail(handles[i]) = <<>> THEN "remove_network_get" ELSE "down_stop"]
    /\ res' = res
    /\ UNCHANGED <<networks, exits, fixedVars, netCache, op, requested,
                   service_list, cur, prev, nops>>

\* _remove_network: self.client.networks.get(self.network_name); NotFound is
\* swallowed and self._network is reset
remove_network_get(i) ==
    /\ pc[i] = "remove_network_get"
    /\ LET name == network_name(proj[i])
           found == networks_named(name)
       IN IF found = {}
          THEN /\ Log(i, Call("networks.get", name, FALSE, FALSE))
               /\ netCache' = [netCache EXCEPT ![i] = NoHandle]
               /\ Finish(i, remove_network_not_found)
               /\ UNCHANGED cur
          ELSE /\ Log(i, Call("networks.get", name, TRUE, FALSE))
               /\ cur' = [cur EXCEPT ![i] = Handle(CHOOSE n \in found : TRUE)]
               /\ pc' = [pc EXCEPT ![i] = "remove_network_remove"]
               /\ UNCHANGED <<netCache, res>>
    /\ UNCHANGED <<runtimeVars, fixedVars, op, requested, service_list, handles, prev, nops>>

\* _remove_network: network.remove(); the runtime refuses while a running
\* container is attached; NotFound and APIError are swallowed
remove_network_remove(i) ==
    /\ pc[i] = "remove_network_remove"
    /\ LET found == {n \in networks : n.id = cur[i].id}
       IN IF found = {} \/ (\E n \in found : \E c \in containers :
                                 c.status = STATUS_RUNNING /\ c.network = n.name)
          THEN /\ Log(i, Call("network.remove", cur[i].name, FALSE, FALSE))
               /\ UNCHANGED networks
          ELSE /\ Log(i, Call("network.remove", cur[i].name, TRUE, TRUE))
               /\ networks' = networks \ found
    /\ netCache' = [netCache EXCEPT ![i] = NoHandle]
    /\ Finish(i, Ok)
    /\ UNCHANGED <<containers, exits, fixedVars, op, requested,
                   service_list, handles, cur, prev, nops>>

\* ----------------------------------------------------------- remove_stopped
\* remove_stopped(): the next handle, or return
next_stopped(i) ==
    /\ handles' = [handles EXCEPT ![i] = Tail(@)]
    /\ IF Tail(handles[i]) = <<>>
       THEN Finish(i, Ok)
       ELSE /\ pc' = [pc EXCEPT ![i] = "rs_is_running"]
            /\ res' = res

\* remove_stopped(): self.containers(stopped=True)
remove_stopped_begin(i, budget) ==
    /\ Begin(i, "remove_stopped", <<>>, budget)
    /\ LET listed == project_containers(proj[i], NotGiven, TRUE)
       IN /\ handles' = [handles EXCEPT ![i] = listed]
          /\ pc' = [pc EXCEPT ![i] = IF listed = <<>> THEN "idle" ELSE "rs_is_running"]
          /\ res' = [res EXCEPT ![i] = IF listed = <<>> THEN Ok ELSE Pending]
    /\ UNCHANGED <<runtimeVars, fixedVars, netCache, service_list, cur>>

is_running_never(c) == FALSE

\* ComposeContainer.is_running on the reloaded container
is_running(c) == c.status = STATUS_RUNNING

\* remove_stopped(): container.is_running, which reloads the handle; NotFound is
\* not caught here
rs_is_running(i) ==
    /\ pc[i] = "rs_is_running"
    /\ LET h == Head(handles[i])
           found == container_with_id(h.id)
       IN IF found = {}
          THEN /\ Log(i, Call("reload", h.name, FALSE, FALSE))
               /\ Finish(i, Err("NotFound", "reload"))
               /\ UNCHANGED handles
          ELSE /\ Log(i, Call("reload", h.name, TRUE, FALSE))
               /\ IF is_running(CHOOSE c \in found : TRUE)
                  THEN next_stopped(i)
                  ELSE /\ pc' = [pc EXCEPT ![i] = "rs_remove"]
                       /\ UNCHANGED <<res, handles>>
    /\ UNCHANGED <<runtimeVars, fixedVars, netCache, op, requested, service_list, cur, prev, nops>>

\* remove_stopped(): container.remove(force=True)
rs_remove(i) ==
    /\ pc[i] = "rs_remove"
    /\ LET h == Head(handles[i])
           found == container_with_id(h.id)
       IN IF found = {}
          THEN /\ Log(i, Call("remove", h.name, FALSE, FALSE))
               /\ UNCHANGED containers
          ELSE /\ containers' = containers \ found
               /\ Log(i, Call("remove", h.name, TRUE, TRUE))
    /\ next_stopped(i)
    /\ UNCHANGED <<networks, exits, fixedVars, netCache, op, requested,
                   service_list, cur, prev, nops>>

\* -------------------------------------------------------------- environment
\* the process of a running container ends by itself
container_exits ==
    /\ exits < MaxExits
    /\ \E c \in containers :
          /\ c.status = STATUS_RUNNING
          /\ containers' = (containers \ {c}) \cup {[c EXCEPT !.status = STATUS_EXITED]}
    /\ exits' = exits + 1
    /\ UNCHANGED <<networks, fixedVars, localVars>>

\* the instance that is alone on the runtime, when one is
Alone == "e1"

\* an actor other than the engine runs a container under the name of a service
\* of the project, with the project label and no service label
foreign_run ==
    /\ Cardinality({c \in containers : c.creator = "other"}) < MaxForeign
    /\ \E p \in {proj[Alone]} : \E s \in ServiceNames(p) :
          /\ containers_named(container_name(p, s)) = {}
          /\ containers' = containers \cup
                 {new_container(("name" :> container_name(p, s))
                                    @@ ("labels" :> (LABEL_PROJECT :> p))
                                    @@ ("image" :> "busybox"),
                                new_container_id, STATUS_RUNNING, "other")}
    /\ UNCHANGED <<networks, exits, fixedVars, localVars>>

\* ------------------------------------------------------------------ queries
\* a call that changes nothing: the function, the project and argument it was
\* called with, and what it returned
Called(fn, p, arg, stopped, out) ==
    [fn |-> fn, p |-> p, arg |-> arg, stopped |-> stopped, out |-> out]

\* no operation is under way and no call of these has been made
AllIdle == calc = NoCalc /\ \A i \in Instances : pc[i] = "idle"

\* project.containers(service_names, stopped), service_names not given, or a
\* list, also the empty one
call_containers(i) ==
    /\ AllIdle
    /\ \E stopped \in BOOLEAN :
       \E service_names \in {NotGiven, Arg(<<>>)} \cup {Arg(<<s>>) : s \in ServiceNames(proj[i])} :
          calc' = [fn |-> "containers", p |-> proj[i], arg |-> service_names.list,
                   given |-> service_names.given, stopped |-> stopped,
                   out |-> project_containers(proj[i], service_names, stopped)]
    /\ UNCHANGED <<runtimeVars, config, proj, localVars>>

\* the services that up(services) of the project would take
call_up_service_list(i) ==
    /\ AllIdle
    /\ \E a \in UpArgs(proj[i]) :
          calc' = Called("service_list", proj[i], a, FALSE, up_service_list(proj[i], a))
    /\ UNCHANGED <<runtimeVars, config, proj, localVars>>

\* project.get_service(name).get_container()
call_get_container(i) ==
    /\ AllIdle
    /\ \E name \in ServiceNames(proj[i]) :
          calc' = Called("get_container", proj[i], name, FALSE, get_container(proj[i], name))
    /\ UNCHANGED <<runtimeVars, config, proj, localVars>>

\* container.name_without_project of a container that project.containers()
\* returned
call_name_without_project(i) ==
    /\ AllIdle
    /\ \E c \in containers_list(FALSE, <<LABEL_PROJECT, proj[i]>>, <<STATUS_RUNNING>>) :
          calc' = Called("name_without_project", proj[i], Handle(c), FALSE, name_without_project(c))
    /\ UNCHANGED <<runtimeVars, config, proj, localVars>>

\* TestCluster.is_running(): the running containers of the project are listed,
\* none gives False, and else every one of them is reloaded and asked whether
\* it is running (the runtime is taken not to change between the listing and
\* the reloads)
call_is_running(i) ==
    /\ AllIdle
    /\ LET listed == containers_list(FALSE, <<LABEL_PROJECT, proj[i]>>, <<STATUS_RUNNING>>)
       IN calc' = Called("is_running", proj[i], None, FALSE,
                         IF listed = {} THEN FALSE ELSE \A c \in listed : is_running(c))
    /\ UNCHANGED <<runtimeVars, config, proj, localVars>>

\* ------------------------------------------------------- loading a document
\* What yaml.safe_load gives for a compose file: nothing (an empty file), or a
\* mapping with some top-level keys; under the key services, when there is one,
\* nothing (the key with no value), a mapping from service names, or a list.
Absent == [type |-> "absent", names |-> <<>>]
Document(type, keys, under_services) == [type |-> type, keys |-> keys, services |-> under_services]

Documents ==
    {Document("null", {}, Absent), Document("map", {}, Absent), Document("map", {"version"}, Absent)}
    \cup {Document("map", keys, [type |-> "null", names |-> <<>>]) :
              keys \in {{"services"}, {"services", "version"}}}
    \cup {Document("map", keys, [type |-> ty, names |-> names]) :
              keys \in {{"services"}, {"services", "version"}},
              ty \in {"map", "list"},
              names \in {<<>>, <<<<"c">>>>, <<<<"c">>, <<"x">>>>}}

\* ComposeConfig._load past yaml.safe_load: the ValueError, or the document (no
\* document here holds a string for _expand_env_vars to change)
load(raw_config) ==
    IF raw_config.type = "null" \/ raw_config.keys = {} \/ "services" \notin raw_config.keys
    THEN [ok |-> FALSE, config |-> Document("null", {}, Absent)]
    ELSE [ok |-> TRUE, config |-> raw_config]

\* ComposeConfig.services: self._config.get('services', {})
config_services(loaded) ==
    IF "services" \in loaded.keys THEN loaded.services ELSE [type |-> "map", names |-> <<>>]

\* up(): list(self.config.services.keys()) needs a mapping
has_keys(loaded) == config_services(loaded).type = "map"

\* ------------------------------------------ expanding environment variables
\* A string is the sequence of its tokens: "$", ":-", "-", and words (names of
\* variables and other text without these).  The process environment maps the
\* names of the variables that are set (of FOO and BAR) to their values.
Environments ==
    UNION {[D -> {<<>>, <<"baz">>, <<"$", "BAR">>, <<"a", "-", "b">>}] : D \in SUBSET {"FOO", "BAR"}}

\* the text of a name (the tokens before the separator) as a key of the
\* environment
IsSet(environ, name) == Len(name) = 1 /\ name[1] \in DOMAIN environ

\* os.environ.get(name, default)
environ_get(environ, name, default) ==
    IF IsSet(environ, name) THEN environ[name[1]] ELSE default

\* str.split(sep, 1) of a string that contains sep
FirstIndex(s, sep) == CHOOSE k \in 1..Len(s) : s[k] = sep /\ \A j \in 1..(k - 1) : s[j] # sep
Before(s, sep) == SubSeq(s, 1, FirstIndex(s, sep) - 1)
After(s, sep) == SubSeq(s, FirstIndex(s, sep) + 1, Len(s))

\* _expand_env_vars._replace_braced on the text between ${ and }
replace_braced(expr, environ) ==
    IF ":-" \in Range(expr)
    THEN environ_get(environ, Before(expr, ":-"), After(expr, ":-"))
    ELSE IF "-" \in Range(expr) /\ expr[1] # "-"
    THEN IF IsSet(environ, Before(expr, "-"))
         THEN environ_get(environ, Before(expr, "-"), <<>>)
         ELSE After(expr, "-")
    ELSE environ_get(environ, expr, <<>>)

RECURSIVE replace_simple(_, _)
\* ENV_VAR_SIMPLE_PATTERN.sub: every "$" that a word follows is replaced,
\* together with the word, by the value of the variable of that name, or by
\* nothing; what was put in is not scanned again
replace_simple(s, environ) ==
    IF s = <<>> THEN <<>>
    ELSE IF Head(s) = "$" /\ Len(s) >= 2 /\ s[2] \notin {"$", ":-", "-"}
    THEN environ_get(environ, <<s[2]>>, <<>>) \o replace_simple(SubSeq(s, 3, Len(s)), environ)
    ELSE <<Head(s)>> \o replace_simple(Tail(s), environ)

\* the strings expanded here: ${expr}, or a text without braces
Braced(expr) == [braced |-> TRUE, text |-> expr]
Plain(text) == [braced |-> FALSE, text |-> text]

Strings ==
    {Braced(<<"FOO">>), Braced(<<"-", "bar">>), Plain(<<"$", "FOO">>), Plain(<<"bar">>)}
    \cup {Braced(<<"FOO", sep>> \o default) : sep \in {":-", "-"}, default \in {<<>>, <<"bar">>, <<"a", "-", "b">>}}

\* _expand_env_vars on a string: the braced pass, then the simple pass over its
\* result
expand_env_vars(value, environ) ==
    replace_simple(IF value.braced THEN replace_braced(value.text, environ) ELSE value.text,
                   environ)

\* ----------------------------------------------------------------- ports
\* A port entry of a compose file is a number or a string; a string is the
\* sequence of its ':'-free segments, so str.split(':') is the identity.
PortNumber(n) == [number |-> TRUE, n |-> n, segments |-> <<>>]
PortString(segments) == [number |-> FALSE, n |-> 0, segments |-> segments]

Segments == {"80", "8080", "", "127.0.0.1", "http"}

\* str.isdigit and int() on a segment
isdigit(s) == s \in {"80", "8080"}
int(s) == IF s = "80" THEN 80 ELSE 8080

\* str(port_spec).split(':')
port_parts(port_spec) ==
    IF port_spec.number THEN <<IF port_spec.n = 80 THEN "80" ELSE "8080">> ELSE port_spec.segments

\* the host side of a binding: None, a number, a string, or (ip, number or None)
Binding(kind, n, s, ip) == [kind |-> kind, n |-> n, s |-> s, ip |-> ip]

\* int(host_port) raises ValueError on a host port that is not a number
port_raises(port_spec) ==
    LET parts == port_parts(port_spec)
    IN Len(parts) = 3 /\ parts[2] # "" /\ ~isdigit(parts[2])

\* result after one entry: the body of the loop of _parse_ports
parse_port(result, port_spec) ==
    LET parts == port_parts(port_spec)
    IN IF Len(parts) = 1 THEN (parts[1] :> Binding("none", 0, "", "")) @@ result
       ELSE IF Len(parts) = 2
       THEN (parts[2] :> (IF isdigit(parts[1]) THEN Binding("int", int(parts[1]), "", "") ELSE Binding("str", 0, parts[1], "")))
            @@ result
       ELSE IF Len(parts) = 3
       THEN (parts[3] :> (IF parts[2] # "" THEN Binding("ip_int", int(parts[2]), "", parts[1])
                                           ELSE Binding("ip_none", 0, "", parts[1])))
            @@ result
       ELSE result

RECURSIVE parse_ports_from(_, _)
parse_ports_from(result, ports) ==
    IF ports = <<>> THEN [ok |-> TRUE, result |-> result]
    ELSE IF port_raises(Head(ports)) THEN [ok |-> FALSE, result |-> <<>>]
    ELSE parse_ports_from(parse_port(result, Head(ports)), Tail(ports))

\* ComposeProject._parse_ports
parse_ports(ports) == parse_ports_from(<<>>, ports)

PortEntries ==
    {PortNumber(80), PortNumber(8080)}
    \cup {PortString(<<a>>) : a \in {"80", "8080"}}
    \cup {PortString(<<a, b>>) : a \in Segments \ {"127.0.0.1"}, b \in {"80", "8080"}}
    \cup {PortString(<<a, b, c>>) : a \in {"127.0.0.1", ""}, b \in Segments \ {"127.0.0.1"}, c \in {"80", "8080"}}
    \cup {PortString(<<"", "", "1", "8080", "80">>)}

\* --------------------------------------------------------------- volumes
\* A volume entry is the sequence of its ':'-free parts, so str.split(':') is
\* the identity; a path is the sequence of its tokens: "/", "." and names.
VOLUME_MODE_RW == "rw"

HostPaths ==
    {<<".", "/", "data">>, <<"/", "abs">>, <<"data">>, <<".", "/">>, <<".", ".", "/", "data">>}

\* os.path.join(a, b)
path_join(a, b) ==
    IF b # <<>> /\ b[1] = "/" THEN b
    ELSE IF a = <<>> \/ a[Len(a)] = "/" THEN a \o b
    ELSE a \o <<"/">> \o b

RECURSIVE parse_volumes_from(_, _, _)
\* the loop of _parse_volumes: an entry without ':' is passed over; the host
\* path of the others is resolved when it starts with './'
parse_volumes_from(working_dir, result, volumes) ==
    IF volumes = <<>> THEN result
    ELSE LET parts == Head(volumes)
             host_path == IF Len(parts[1]) >= 2 /\ parts[1][1] = "." /\ parts[1][2] = "/"
                          THEN path_join(working_dir, SubSeq(parts[1], 3, Len(parts[1])))
                          ELSE parts[1]
             mode == IF Len(parts) > 2 THEN parts[3] ELSE <<VOLUME_MODE_RW>>
         IN parse_volumes_from(working_dir,
                               IF Len(parts) < 2 THEN result
                               ELSE (host_path :> [bind |-> parts[2], mode |-> mode]) @@ result,
                               Tail(volumes))

\* ComposeProject._parse_volumes
parse_volumes(working_dir, volumes) == parse_volumes_from(working_dir, <<>>, volumes)

VolumeEntries ==
    {<<h>> : h \in HostPaths}
    \cup {<<h, c>> : h \in HostPaths, c \in {<<"/", "data">>, <<"/", "other">>}}
    \cup {<<h, c, m>> : h \in HostPaths, c \in {<<"/", "data">>, <<"/", "other">>},
                        m \in {<<"ro">>, <<"rw">>}}

\* ----------------------------------------------------------- environment
\* The environment of a service is a list of items or a mapping.  An item of
\* the list is a string, the sequence of its tokens ("=" and '='-free texts),
\* or something else; a value of the mapping is null, a number, a boolean or
\* a string.
StrItem(text) == [str |-> TRUE, text |-> text]

EnvList(items) == [type |-> "list", items |-> items, map |-> <<>>]

\* str(value) of a value of the mapping that is not None
str(value) ==
    IF value.type = "int" THEN <<IF value.n = 1 THEN "1" ELSE "0">>
    ELSE IF value.type = "bool" THEN <<IF value.b THEN "True" ELSE "False">>
    ELSE value.s

\* an item of the list as (key, value): item.split('=', 1), or the item and
\* its value in the process environment
environment_item_rsplit(item, environ) ==
    IF "=" \in Range(item.text)
    THEN LET n == CHOOSE k \in 1..Len(item.text) :
                      item.text[k] = "=" /\ \A j \in (k + 1)..Len(item.text) : item.text[j] # "="
         IN <<SubSeq(item.text, 1, n - 1), SubSeq(item.text, n + 1, Len(item.text))>>
    ELSE <<item.text, environ_get(environ, item.text, <<>>)>>
environment_item(item, environ) ==
    IF "=" \in Range(item.text)
    THEN <<Before(item.text, "="), After(item.text, "=")>>
    ELSE <<item.text, environ_get(environ, item.text, <<>>)>>

RECURSIVE parse_environment_from(_, _, _)
\* the loop over the list: items that are not strings are passed over
parse_environment_from(result, items, environ) ==
    IF items = <<>> THEN result
    ELSE IF ~Head(items).str THEN parse_environment_from(result, Tail(items), environ)
    ELSE LET kv == environment_item(Head(items), environ)
         IN parse_environment_from((kv[1] :> kv[2]) @@ result, Tail(items), environ)

\* ComposeProject._parse_environment
parse_environment(env, environ) ==
    IF env.type = "list" THEN parse_environment_from(<<>>, env.items, environ)
    ELSE [key \in DOMAIN env.map |->
             IF env.map[key].type = "null" THEN environ_get(environ, <<key>>, <<>>)
             ELSE str(env.map[key])]

EnvItems ==
    {StrItem(<<"K", "=", "V">>), StrItem(<<"K", "=", "V", "=", "W">>), StrItem(<<"K", "=">>),
     StrItem(<<"FOO">>), StrItem(<<"BAR">>), StrItem(<<"FOO", "=", "x">>), [str |-> FALSE, text |-> <<>>]}

ServiceEnvironments ==
    {EnvList(<<a>>) : a \in EnvItems}
    \cup {EnvList(<<a, b>>) : a, b \in EnvItems}
    \cup {[type |-> "dict", items |-> <<>>, map |-> m] :
              m \in UNION {[D -> {[type |-> "null", n |-> 0, b |-> FALSE, s |-> <<>>],
                                  [type |-> "int", n |-> 1, b |-> FALSE, s |-> <<>>],
                                  [type |-> "bool", n |-> 0, b |-> TRUE, s |-> <<>>],
                                  [type |-> "str", n |-> 0, b |-> FALSE, s |-> <<"x">>]}] :
                               D \in SUBSET {"FOO", "K"}}}

\* --------------------------------------------------- add_registry_and_tag
\* The name of an environment variable is the sequence of its tokens: "_" and
\* the words between; an image name is a sequence of tokens as well.
DOCKER_PREFIX == <<"DOCKER", "_">>
REGISTRY_SUFFIX == <<"REGISTRY">>
TAG_SUFFIX == <<"TAG">>
DEFAULT_TAG == <<"latest">>
UPSTREAM_SCOPE == <<"UPSTREAM">>
TEST_SCOPE == <<"TEST">>
SCOPE_SEPARATOR == <<"_">>

\* the variables that tests set, each to a value of its own when it is set
RegistryVariables ==
    {DOCKER_PREFIX \o sc \o suffix :
        sc \in {<<>>, UPSTREAM_SCOPE \o SCOPE_SEPARATOR, TEST_SCOPE \o SCOPE_SEPARATOR},
        suffix \in {REGISTRY_SUFFIX, TAG_SUFFIX}}

\* os.environ.get(key, default) with the whole name as the key
getenv(environ, key, default) == IF key \in DOMAIN environ THEN environ[key] ELSE default

scoped_no_separator(scope) == scope

\* if scope: scope += SCOPE_SEPARATOR
scoped(scope) == IF scope # <<>> THEN scope \o SCOPE_SEPARATOR ELSE scope

add_registry_and_tag(image, scope, environ) ==
    LET registry == getenv(environ, DOCKER_PREFIX \o scoped(scope) \o REGISTRY_SUFFIX, <<>>)
        tag == getenv(environ, DOCKER_PREFIX \o scoped(scope) \o TAG_SUFFIX, DEFAULT_TAG)
    IN registry \o image \o <<":">> \o tag

\* ------------------------------------------------------------ cub CLASSPATH
\* A classpath is a quoted list of ':'-separated entries; an entry is the
\* sequence of its tokens, a directory and "/*".  The value of a variable that
\* lists directories holds the directories it lists, trimmed.
Classpath(entries) == [quoted |-> TRUE, entries |-> entries]

DefaultClasspath ==
    Classpath(<< <<"/usr/share/java/cp-base", "/*">>, <<"/usr/share/java/cp-base-new", "/*">> >>)

\* the value of a variable that lists directories
Dirs(entries) == [quoted |-> FALSE, entries |-> entries]

CubEnvironments ==
    {e \in UNION {[D -> {Classpath(<< <<"/custom", "/*">> >>), Dirs(<< <<"/opt/libs">> >>),
                          Dirs(<< <<"/opt/a">>, <<"/opt/b">> >>), Dirs(<< <<"/ext/libs">> >>)}] :
                     D \in SUBSET {"CUB_CLASSPATH", "CUB_CLASSPATH_DIRS", "CUB_EXTRA_CLASSPATH"}} :
        \A name \in DOMAIN e : (name = "CUB_CLASSPATH") <=> (e[name] = Classpath(<< <<"/custom", "/*">> >>))}

\* CLASSPATH = os.environ.get("CUB_CLASSPATH", '"/usr/share/java/cp-base/*:...')
cub_classpath(environ) == getenv(environ, "CUB_CLASSPATH", DefaultClasspath)

\* ------------------------------------------------------ calls of functions
\* a function about to be called on an argument (and in an environment), and
\* then what it returned
ToCall(fn, arg, environ) == [fn |-> fn, arg |-> arg, environ |-> environ, done |-> FALSE, out |-> <<>>]
Returned(c, out) == [c EXCEPT !.done = TRUE, !.out = out]

Calls ==
    {ToCall("load", d, <<>>) : d \in Documents}
    \cup {ToCall("expand_env_vars", s, e) : s \in Strings, e \in Environments}
    \cup {ToCall("parse_ports", ports, <<>>) :
              ports \in {<<e>> : e \in PortEntries}
                        \cup {<<PortString(<<"8080", "80">>), e>> : e \in PortEntries}}
    \cup {ToCall("parse_environment", env, e) : env \in ServiceEnvironments, e \in Environments}
    \cup {ToCall("add_registry_and_tag", [image |-> im, scope |-> sc], e) :
              im \in {<<"confluentinc", "/", "cp-base">>},
              sc \in {<<>>, UPSTREAM_SCOPE, TEST_SCOPE},
              e \in {[name \in D |-> <<"value", "of">> \o name] : D \in SUBSET RegistryVariables}}
    \cup {ToCall("cub_classpath", <<>>, e) : e \in CubEnvironments}
    \cup {ToCall("parse_volumes", [working_dir |-> w, volumes |-> v], <<>>) :
              w \in {<<"/", "wd">>, <<"/", "srv", "/", "app">>},
              v \in {<<e>> : e \in VolumeEntries}
                    \cup {<<e, f>> : e \in {<<<<"/", "abs">>, <<"/", "data">>>>,
                                            <<<<".", "/", "data">>, <<"/", "data">>, <<"ro">>>>},
                                     f \in VolumeEntries}}

call_load ==
    /\ calc.fn = "load" /\ ~calc.done
    /\ calc' = Returned(calc, load(calc.arg))
    /\ UNCHANGED <<runtimeVars, config, proj, localVars>>

call_expand_env_vars ==
    /\ calc.fn = "expand_env_vars" /\ ~calc.done
    /\ calc' = Returned(calc, expand_env_vars(calc.arg, calc.environ))
    /\ UNCHANGED <<runtimeVars, config, proj, localVars>>

call_parse_ports ==
    /\ calc.fn = "parse_ports" /\ ~calc.done
    /\ calc' = Returned(calc, parse_ports(calc.arg))
    /\ UNCHANGED <<runtimeVars, config, proj, localVars>>

call_parse_volumes ==
    /\ calc.fn = "parse_volumes" /\ ~calc.done
    /\ calc' = Returned(calc, parse_volumes(calc.arg.working_dir, calc.arg.volumes))
    /\ UNCHANGED <<runtimeVars, config, proj, localVars>>

call_parse_environment ==
    /\ calc.fn = "parse_environment" /\ ~calc.done
    /\ calc' = Returned(calc, parse_environment(calc.arg, calc.environ))
    /\ UNCHANGED <<runtimeVars, config, proj, localVars>>

call_add_registry_and_tag ==
    /\ calc.fn = "add_registry_and_tag" /\ ~calc.done
    /\ calc' = Returned(calc, add_registry_and_tag(calc.arg.image, calc.arg.scope, calc.environ))
    /\ UNCHANGED <<runtimeVars, config, proj, localVars>>

\* the import of cub in a process environment
call_cub_classpath ==
    /\ calc.fn = "cub_classpath" /\ ~calc.done
    /\ calc' = Returned(calc, cub_classpath(calc.environ))
    /\ UNCHANGED <<runtimeVars, config, proj, localVars>>

\* ------------------------------------------------------- wait_for_service

timed_out_at(now, start, timeout) == now - start >= timeout

\* time.time() - start > timeout
timed_out(now, start, timeout) == now - start > timeout

\* socket.create_connection((host, int(port)), float(timeout)): it succeeds, and
\* True is returned, or raises socket.error, within the timeout it was given
wait_connect ==
    /\ calc.fn = "wait_for_service" /\ calc.at = "connect"
    /\ \E connected \in BOOLEAN :
       \E took \in 0..(IF calc.timeout < MaxConnectTime THEN calc.timeout ELSE MaxConnectTime) :
          calc' = IF connected
                  THEN [calc EXCEPT !.now = @ + took, !.attempts = @ + 1,
                                    !.at = "returned", !.out = TRUE]
                  ELSE [calc EXCEPT !.now = @ + took, !.attempts = @ + 1,
                                    !.failed = @ + 1, !.at = "sleep"]
    /\ UNCHANGED <<runtimeVars, config, proj, localVars>>

\* time.sleep(1)
wait_sleep ==
    /\ calc.fn = "wait_for_service" /\ calc.at = "sleep"
    /\ \E over \in 0..MaxOversleep :
          calc' = [calc EXCEPT !.now = @ + 1 + over, !.sleeps = @ + 1, !.at = "check"]
    /\ UNCHANGED <<runtimeVars, config, proj, localVars>>

\* if time.time() - start > timeout: return False
wait_check ==
    /\ calc.fn = "wait_for_service" /\ calc.at = "check"
    /\ calc' = IF timed_out(calc.now, calc.start, calc.timeout)
               THEN [calc EXCEPT !.at = "returned", !.out = FALSE]
               ELSE [calc EXCEPT !.at = "connect"]
    /\ UNCHANGED <<runtimeVars, config, proj, localVars>>

\* ------------------------------------------------------ run_docker_command
DOCKER_TESTING_LABEL == "io.confluent.docker.testing"

\* run_docker_command: pull_image, then TestContainer.create with the testing
\* label; the pull or containers.create may fail (fault), and then there is no
\* container
test_container_create(i, budget) ==
    /\ Begin(i, "run_docker_command", <<>>, budget)
    /\ \E fault \in BOOLEAN :
          IF fault
          THEN /\ Finish(i, Err("APIError", "create"))
               /\ UNCHANGED <<containers, cur>>
          ELSE LET container == new_container(("labels" :> (DOCKER_TESTING_LABEL :> <<"true">>))
                                                  @@ ("image" :> "busybox"),
                                              new_container_id, "created", i)
               IN /\ containers' = containers \cup {container}
                  /\ cur' = [cur EXCEPT ![i] = Handle(container)]
                  /\ pc' = [pc EXCEPT ![i] = "test_container_start"]
                  /\ res' = [res EXCEPT ![i] = Pending]
    /\ UNCHANGED <<networks, exits, fixedVars, netCache, service_list, handles>>

\* run_docker_command: container.start(); an APIError of the runtime (the
\* command cannot be executed, say) is not caught
test_container_start(i) ==
    /\ pc[i] = "test_container_start"
    /\ \E fault \in BOOLEAN :
          IF fault
          THEN /\ Log(i, Call("start", cur[i].name, FALSE, FALSE))
               /\ Finish(i, Err("APIError", "start"))
               /\ UNCHANGED containers
          ELSE /\ containers' = {IF c.id = cur[i].id THEN [c EXCEPT !.status = STATUS_RUNNING] ELSE c :
                                     c \in containers}
               /\ Log(i, Call("start", cur[i].name, TRUE, TRUE))
               /\ pc' = [pc EXCEPT ![i] = "test_container_wait"]
               /\ res' = res
    /\ UNCHANGED <<networks, exits, fixedVars, netCache, op, requested, service_list, handles, cur, prev, nops>>

\* run_docker_command: container.wait(timeout) returns once the process has
\* ended; while it runs the call goes on, or, with a timeout, raises when the
\* time is up
test_container_wait(i) ==
    /\ pc[i] = "test_container_wait"
    /\ IF \E c \in container_with_id(cur[i].id) : c.status = STATUS_RUNNING
       THEN /\ Log(i, Call("wait", cur[i].name, FALSE, FALSE))
            /\ Finish(i, Err("ReadTimeout", "wait"))
       ELSE /\ Log(i, Call("wait", cur[i].name, TRUE, FALSE))
            /\ pc' = [pc EXCEPT ![i] = "test_container_logs"]
            /\ res' = res
    /\ UNCHANGED <<runtimeVars, fixedVars, netCache, op, requested, service_list, handles, cur, prev, nops>>

\* run_docker_command: container.logs()
test_container_logs(i) ==
    /\ pc[i] = "test_container_logs"
    /\ Log(i, Call("logs", cur[i].name, TRUE, FALSE))
    /\ pc' = [pc EXCEPT ![i] = "shutdown_stop"]
    /\ UNCHANGED <<runtimeVars, fixedVars, netCache, op, requested, service_list, handles, cur, res, prev, nops>>

\* TestContainer.shutdown: self.stop(), which swallows an APIError
shutdown_stop(i) ==
    /\ pc[i] = "shutdown_stop"
    /\ \E fault \in BOOLEAN :
          IF fault
          THEN /\ Log(i, Call("stop", cur[i].name, FALSE, FALSE))
               /\ UNCHANGED containers
          ELSE /\ containers' = {IF c.id = cur[i].id /\ c.status = STATUS_RUNNING
                                 THEN [c EXCEPT !.status = STATUS_EXITED] ELSE c : c \in containers}
               /\ Log(i, Call("stop", cur[i].name, TRUE, containers' # containers))
    /\ pc' = [pc EXCEPT ![i] = "shutdown_remove"]
    /\ UNCHANGED <<networks, exits, fixedVars, netCache, op, requested, service_list, handles, cur, res, prev, nops>>

\* TestContainer.shutdown: self.remove(), without force; the runtime refuses to
\* remove a running container, or fails for a reason of its own (fault);
\* NotFound and APIError are swallowed, and run_docker_command returns the logs
shutdown_remove(i) ==
    /\ pc[i] = "shutdown_remove"
    /\ \E fault \in BOOLEAN :
          IF fault \/ \E c \in container_with_id(cur[i].id) : c.status = STATUS_RUNNING
          THEN /\ Log(i, Call("remove", cur[i].name, FALSE, FALSE))
               /\ UNCHANGED containers
          ELSE /\ containers' = containers \ container_with_id(cur[i].id)
               /\ Log(i, Call("remove", cur[i].name, TRUE, TRUE))
    /\ Finish(i, Ok)
    /\ UNCHANGED <<networks, exits, fixedVars, netCache, op, requested, service_list, handles, cur, prev, nops>>

\* ----------------------------------------------------------- specifications
Step(i, budget) ==
    \/ \E a \in UpArgs(proj[i]) : up_begin(i, a, budget)
    \/ networks_get(i)
    \/ networks_create(i)
    \/ containers_get(i)
    \/ existing_start(i)
    \/ containers_run(i)
    \/ verify_reload(i)
    \/ verify_logs(i)
    \/ down_begin(i, budget)
    \/ down_stop(i)
    \/ down_remove(i)
    \/ remove_network_get(i)
    \/ remove_network_remove(i)
    \/ remove_stopped_begin(i, budget)
    \/ rs_is_running(i)
    \/ rs_remove(i)

\* several engine instances on one runtime
Next == (\E i \in Instances : Step(i, MaxOps)) \/ container_exits

Spec == Init /\ [][Next]_vars

\* one engine instance alone on the runtime
NextSeq == Step(Alone, MaxSeqOps) \/ container_exits

SpecSeq == Init /\ [][NextSeq]_vars

\* an up() on the empty runtime, as the first operation of a behaviour
FirstUp(i) ==
    \/ \E a \in UpArgs(proj[i]) : up_begin(i, a, 1)
    \/ networks_get(i)
    \/ networks_create(i)
    \/ containers_get(i)
    \/ containers_run(i)
    \/ verify_reload(i)
    \/ verify_logs(i)

\* down() and remove_stopped()
Teardown(i, budget) ==
    \/ down_begin(i, budget)
    \/ down_stop(i)
    \/ down_remove(i)
    \/ remove_network_get(i)
    \/ remove_network_remove(i)
    \/ remove_stopped_begin(i, budget)
    \/ rs_is_running(i)
    \/ rs_remove(i)

\* one instance brings the project up, and several instances tear it down
NextTeardown ==
    \/ FirstUp("e1")
    \/ \E i \in Instances : Teardown(i, MaxTeardownOps)
    \/ container_exits

SpecTeardown == Init /\ [][NextTeardown]_vars

\* One instance alone on the runtime, and another actor that may run a
\* container.  The calls that change nothing are followed to their result and
\* no further: what the engine can do after one is what it can do without it.
NextQuery ==
    \/ calc = NoCalc /\ Step(Alone, MaxQueryOps)
    \/ call_containers(Alone)
    \/ call_get_container(Alone)
    \/ call_name_without_project(Alone)
    \/ call_is_running(Alone)
    \/ calc = NoCalc /\ foreign_run
    \/ calc = NoCalc /\ container_exits

SpecQuery == Init /\ [][NextQuery]_vars

\* Several instances on one runtime, and containers() called between their
\* operations, or the list of services of an up() computed; the call is
\* followed to its result and no further.
NextListing ==
    \/ calc = NoCalc /\ \E i \in Instances : Step(i, MaxOps)
    \/ calc = NoCalc /\ container_exits
    \/ \E i \in Instances : call_containers(i)
    \/ \E i \in Instances : call_up_service_list(i)

SpecListing == Init /\ [][NextListing]_vars

\* One instance that keeps its ComposeProject object through its operations,
\* and another that only tears down: to the first, an actor that removes
\* containers and the network behind its back.
NextStale ==
    \/ Step("e1", MaxTeardownOps)
    \/ Teardown("e2", MaxTeardownOps)
    \/ container_exits

SpecStale == Init /\ [][NextStale]_vars

\* run_docker_command called again and again by one caller, with the process
\* of a container ending by itself
NextRun ==
    \/ test_container_create(Alone, MaxSeqOps)
    \/ test_container_start(Alone)
    \/ test_container_wait(Alone)
    \/ test_container_logs(Alone)
    \/ shutdown_stop(Alone)
    \/ shutdown_remove(Alone)
    \/ container_exits

SpecRun == Init /\ [][NextRun]_vars

\* TestCluster.start(): self.shutdown(), which is down() and then
\* remove_stopped(), and then up() of every service, each on a new
\* ComposeProject; what it calls is followed by the steps of Step
start(i) ==
    \/ op[i] = "none" /\ down_begin(i, MaxSeqOps)
    \/ pc[i] = "idle" /\ op[i] = "down" /\ remove_stopped_begin(i, MaxSeqOps)
    \/ pc[i] = "idle" /\ op[i] = "remove_stopped" /\ res[i] = Ok /\ up_begin(i, NotGiven, MaxSeqOps)

\* One instance has brought its project up, or is about to; then the cluster
\* of the other instance is started, once.  With nobody else acting meanwhile,
\* remove_stopped() after down() lists no container and has no step to take.
NextStart ==
    \/ op[Alone] = "none" /\ FirstUp("e2")
    \/ start(Alone)
    \/ down_stop(Alone)
    \/ down_remove(Alone)
    \/ remove_network_get(Alone)
    \/ remove_network_remove(Alone)
    \/ networks_get(Alone)
    \/ networks_create(Alone)
    \/ containers_get(Alone)
    \/ existing_start(Alone)
    \/ containers_run(Alone)
    \/ verify_reload(Alone)
    \/ verify_logs(Alone)
    \/ container_exits

SpecStart == Init /\ [][NextStart]_vars

\* the functions that read a compose file, each called once on one argument
InitPure ==
    /\ InitEngine
    /\ proj = [i \in Instances |-> <<"a">>]
    /\ config = [p \in Projects |-> DefaultTopology(p)]
    /\ calc \in Calls

NextPure ==
    \/ call_load
    \/ call_expand_env_vars
    \/ call_parse_ports
    \/ call_parse_volumes
    \/ call_parse_environment
    \/ call_add_registry_and_tag
    \/ call_cub_classpath

SpecPure == InitPure /\ [][NextPure]_vars

\* wait_for_service called once with some timeout: the clock counts seconds
\* from the call (start = time.time()), and the loop is at its connection
\* attempt, at its sleep, at its check of the elapsed time, or has returned.
\* The loop runs in one thread that keeps taking its next step.
InitWait ==
    /\ InitEngine
    /\ proj = [i \in Instances |-> <<"a">>]
    /\ config = [p \in Projects |-> DefaultTopology(p)]
    /\ calc \in {[fn |-> "wait_for_service", timeout |-> timeout, start |-> 0, now |-> 0,
                   at |-> "connect", attempts |-> 0, failed |-> 0, sleeps |-> 0, out |-> FALSE] :
                      timeout \in 0..MaxTimeout}

NextWait == wait_connect \/ wait_sleep \/ wait_check

SpecWait == InitWait /\ [][NextWait]_vars /\ WF_vars(NextWait)

\* ------------------------------------------------------------------ claims
Idle(i, o) == pc[i] = "idle" /\ op[i] = o

\* the calls of instance i's operation of one kind on one name
CallsOn(i, call, name) ==
    {k \in 1..Len(did[i]) : did[i][k].call = call /\ did[i][k].name = name}

Changed(i) == {k \in 1..Len(did[i]) : did[i][k].changed}

Labelled(p, s) ==
    {c \in containers : Get(c.labels, LABEL_PROJECT) = p /\ Get(c.labels, LABEL_SERVICE) = s}

\* up() of every declared service returned normally right after an up() of
\* every declared service returned normally, and no container process has
\* ended by itself
UpTwice(i) ==
    /\ Idle(i, "up") /\ res[i] = Ok /\ requested[i] = service_keys(proj[i])
    /\ prev[i].op = "up" /\ prev[i].ok /\ prev[i].requested = service_keys(proj[i])
    /\ exits = 0

\* C1: when one instance alone calls up() twice in a row on an unchanged
\* topology (and no container process ends by itself meanwhile), every declared
\* service has exactly one container, that container is running, and the second
\* call made no containers.run call.
C1_UpTwiceIdempotent ==
    \A i \in Instances :
        UpTwice(i) =>
            /\ \A s \in ServiceNames(proj[i]) :
                  /\ Cardinality(Labelled(proj[i], s)) = 1
                  /\ \A c \in Labelled(proj[i], s) : c.status = STATUS_RUNNING
            /\ \A k \in 1..Len(did[i]) : did[i][k].call # "containers.run"

\* the second up() found every declared service's container by its name
C1_Witness ==
    \E i \in Instances :
        /\ UpTwice(i)
        /\ \A s \in ServiceNames(proj[i]) :
              \E k \in CallsOn(i, "containers.get", container_name(proj[i], s)) : did[i][k].ok

\* C2: in every state that up(), down() and remove_stopped() of one or several
\* instances reach, no two running containers carry the same project label and
\* the same service label.
C2_AtMostOneRunning ==
    \A c1, c2 \in containers :
        (/\ c1.status = STATUS_RUNNING /\ c2.status = STATUS_RUNNING
         /\ Get(c1.labels, LABEL_PROJECT) = Get(c2.labels, LABEL_PROJECT)
         /\ Get(c1.labels, LABEL_SERVICE) = Get(c2.labels, LABEL_SERVICE))
        => c1 = c2

\* two instances of one project have both run up() for the same service, which
\* has a running container
C2_Witness ==
    \E i, j \in Instances :
        /\ i # j /\ proj[i] = proj[j]
        /\ Idle(i, "up") /\ Idle(j, "up")
        /\ \E s \in ServiceNames(proj[i]) :
              /\ CallsOn(i, "containers.run", container_name(proj[i], s)) # {}
              /\ CallsOn(j, "containers.get", container_name(proj[i], s)) # {}
              /\ \E c \in Labelled(proj[i], s) : c.status = STATUS_RUNNING

\* C3: when one instance alone has returned from down(), it returned normally
\* and containers() of its project is empty; and a down() that follows a down()
\* changed nothing in the runtime.
C3_DownThenEmptyAndAgain ==
    \A i \in Instances :
        Idle(i, "down") =>
            /\ res[i] = Ok
            /\ project_containers(proj[i], NotGiven, FALSE) = <<>>
            /\ (prev[i].op = "down" => Changed(i) = {})

\* a down() that removed a container and the network, and a second down() after
\* a first
C3_Witness ==
    \E i \in Instances :
        /\ Idle(i, "down") /\ prev[i].op = "down" /\ prev[i].ok /\ nops >= 3
        /\ \E k \in 1..Len(did[i]) : did[i][k].call = "networks.get" /\ ~did[i][k].ok

\* C4: when one instance alone has returned from a down() that followed an
\* up(), no container named {project}_{service}_1 of a declared service and no
\* network named {project}_default exists.
C4_UpDownLeavesNothing ==
    \A i \in Instances :
        (Idle(i, "down") /\ prev[i].op = "up") =>
            /\ \A s \in ServiceNames(proj[i]) : containers_named(container_name(proj[i], s)) = {}
            /\ networks_named(network_name(proj[i])) = {}

\* the down() after a successful up() removed a container and the network
C4_Witness ==
    \E i \in Instances :
        /\ Idle(i, "down") /\ prev[i].op = "up" /\ prev[i].ok
        /\ \E k \in Changed(i) : did[i][k].call = "remove"
        /\ \E k \in Changed(i) : did[i][k].call = "network.remove"

\* C5: an up() that ends in the validation error for an empty or missing image
\* has changed nothing in the runtime.
C5_ValidationErrorBeforeAnyMutation ==
    \A i \in Instances :
        (Idle(i, "up") /\ res[i] = Err("ValueError", "no_image")) => Changed(i) = {}

\* C6: an up() that ends in the validation error for a service has made no
\* containers.run call for that service's container and no container carries
\* that service's labels; and no container exists for a service whose spec has
\* no non-empty image.
C6_NoCreateWithoutImage ==
    /\ \A i \in Instances :
          (Idle(i, "up") /\ res[i] = Err("ValueError", "no_image")) =>
              LET s == Head(service_list[i])
              IN /\ CallsOn(i, "containers.run", container_name(proj[i], s)) = {}
                 /\ Labelled(proj[i], s) = {}
    /\ \A c \in containers :
          LET p == Get(c.labels, LABEL_PROJECT)
              s == Get(c.labels, LABEL_SERVICE)
          IN declared(p, s) /\ has_valid_image(parse_service_config(get_service(p, s)))

\* the container of the service was looked up, not found, and the validation
\* error raised
C6_Witness ==
    \E i \in Instances :
        /\ Idle(i, "up") /\ res[i] = Err("ValueError", "no_image")
        /\ \E k \in CallsOn(i, "containers.get", container_name(proj[i], Head(service_list[i]))) :
              ~did[i][k].ok

\* C7: an instance whose networks.create call is refused because the network
\* already exists does not fail: no up() ends in that error.
C7_NetworkExistsIsSuccess ==
    \A i \in Instances : res[i] # Err("APIError", "network_exists")

\* C8: an instance that loses the race for the container name of its own
\* project's service does not fail: with two instances on one project, no up()
\* ends in the name-in-use error.
C8_NameInUseIsSuccess ==
    \A i, j \in Instances :
        (i # j /\ proj[i] = proj[j]) => res[i] # Err("RuntimeError", "name_in_use")

\* C9: an up() that ends in the startup error made, after the containers.run
\* call that created the container, exactly one reload and then one logs call
\* and no other call (no second reload, no start, no second run), and carries
\* the last 500 characters of the log, or the whole log when it is shorter.
C9_SingleCheckBoundedExcerpt ==
    \A i \in Instances :
        (Idle(i, "up") /\ res[i].why = "exited_immediately") =>
            LET name == container_name(proj[i], Head(service_list[i]))
                n == Len(did[i])
            IN /\ n >= 3
               /\ did[i][n - 2] = Call("containers.run", name, TRUE, TRUE)
               /\ did[i][n - 1] = Call("reload", name, TRUE, FALSE)
               /\ did[i][n] = Call("logs", name, TRUE, FALSE)
               /\ Cardinality(CallsOn(i, "reload", name)) = 1
               /\ Cardinality(CallsOn(i, "containers.run", name)) = 1
               /\ res[i].kind = "RuntimeError"
               /\ res[i].to - res[i].from <= LOG_TAIL
               /\ (res[i].from = 0 \/ res[i].to - res[i].from = LOG_TAIL)

\* the startup error with a log longer than 500 characters
C9_Witness ==
    \E i \in Instances :
        /\ Idle(i, "up") /\ res[i].why = "exited_immediately"
        /\ res[i].from > 0 /\ res[i].to - res[i].from = LOG_TAIL

\* C10: every container in the runtime is named {project}_{service}_1 for the
\* project of the instance that created it and its service label, carries that
\* project as its project label and a declared service as its service label; and
\* every network is named {project}_default and carries the project label.
C10_NamesAndLabels ==
    /\ \A c \in containers :
          LET p == proj[c.creator]
          IN /\ DOMAIN c.labels = {LABEL_PROJECT, LABEL_SERVICE}
             /\ c.labels[LABEL_PROJECT] = p
             /\ c.labels[LABEL_SERVICE] \in ServiceNames(p)
             /\ c.name = p \o c.labels[LABEL_SERVICE] \o <<"1">>
    /\ \A n \in networks :
          LET p == proj[n.creator]
          IN /\ n.name = p \o <<"default">>
             /\ Get(n.labels, LABEL_PROJECT) = p
             /\ n.driver = NETWORK_DRIVER_BRIDGE

\* containers of two services and a network exist
C10_Witness ==
    /\ \E c1, c2 \in containers : c1.labels[LABEL_SERVICE] # c2.labels[LABEL_SERVICE]
    /\ networks # {}

\* the calls of instance i's operation that create a container or a network and
\* that the runtime answered with an error
FailedCreates(i) ==
    {k \in 1..Len(did[i]) :
        did[i][k].call \in {"containers.run", "networks.create"} /\ ~did[i][k].ok}

\* C16: when the runtime answers a containers.run or networks.create call of an
\* up() with an error, that call is the last call the up() makes, and the up()
\* ends in an error (an APIError for the network, a RuntimeError for the
\* container), never in success.
C16_CreateErrorsPropagate ==
    \A i \in Instances :
        (op[i] = "up" /\ FailedCreates(i) # {}) =>
            /\ FailedCreates(i) = {Len(did[i])}
            /\ pc[i] = "idle"
            /\ res[i].kind = IF did[i][Len(did[i])].call = "networks.create"
                             THEN "APIError" ELSE "RuntimeError"

\* up() calls that ended in an error of the runtime that is not "already
\* exists": a fault of the runtime on networks.create, and a containers.run on
\* a network that is gone
C16_Witness ==
    \E i, j \in Instances :
        /\ Idle(i, "up") /\ res[i] = Err("APIError", "daemon")
        /\ Idle(j, "up") /\ res[j].kind = "RuntimeError"
        /\ res[j].why \in {"daemon", "network_not_found"}

\* the calls of instance i's operation of one kind
CallsOf(i, call) == {k \in 1..Len(did[i]) : did[i][k].call = call}

\* C11: a down() that has returned, with other instances tearing the project
\* down at the same time, returned normally, has visited every container it
\* listed (a stop call and a remove call for each), and ended with the removal
\* of the network (a networks.get that found none, or a network.remove).
C11_TeardownToleratesRemoval ==
    \A i \in Instances :
        Idle(i, "down") =>
            /\ res[i] = Ok
            /\ handles[i] = <<>>
            /\ Cardinality(CallsOf(i, "stop")) = Cardinality(CallsOf(i, "remove"))
            /\ did[i] # <<>>
            /\ \/ did[i][Len(did[i])] = Call("networks.get", network_name(proj[i]), FALSE, FALSE)
               \/ did[i][Len(did[i])].call = "network.remove"

\* a down() found a container it had listed already removed, went on to stop
\* the next container it had listed, and returned
C11_Witness ==
    \E i \in Instances :
        /\ Idle(i, "down")
        /\ \E k \in CallsOf(i, "remove") :
              /\ ~did[i][k].ok
              /\ \E k2 \in CallsOf(i, "stop") : k2 > k

\* C12: with one instance alone on the runtime, every step that removes a
\* network is the network.remove call of a down(); every step that adds a
\* network adds one whose name no network had; and no up() ends in the error of
\* a network that exists already.
C12_NetworkPersistsUntilDown ==
    [][/\ \A n \in networks \ networks' :
             \E i \in Instances : op[i] = "down" /\ pc[i] = "remove_network_remove"
       /\ \A n \in networks' \ networks : networks_named(n.name) = {}
       /\ \A i \in Instances : res'[i] # Err("APIError", "network_exists")]_vars

\* up(), remove_stopped() and up() again have returned; the network is there
\* and the second up() did not create it
C12_Witness ==
    \E i \in Instances :
        /\ Idle(i, "up") /\ res[i] = Ok /\ prev[i].op = "remove_stopped" /\ nops = 3
        /\ networks_named(network_name(proj[i])) # {}
        /\ CallsOf(i, "networks.create") = {}

\* the service that the name {project}_{service}_{instance} of a container of
\* project p stands for, when the container has no service label
claimed_service(c, p) ==
    IF Get(c.labels, LABEL_SERVICE) # None THEN c.labels[LABEL_SERVICE]
    ELSE IF Len(c.name) >= Len(p) + 2 /\ SubSeq(c.name, 1, Len(p)) = p
         THEN SubSeq(c.name, Len(p) + 1, Len(c.name) - 1)
         ELSE c.name

\* C13: containers(service_names) with a non-empty list returns exactly the
\* containers of the project (running ones, or all with stopped=True) whose
\* service, by the label or else by the name, is in the list.
C13_FilterByLabelOrName ==
    (calc.fn = "containers" /\ calc.arg # None) =>
        {h.id : h \in Range(calc.out)} =
            {c.id : c \in {d \in containers_list(calc.stopped, <<LABEL_PROJECT, calc.p>>,
                                                  IF calc.stopped THEN None ELSE <<STATUS_RUNNING>>) :
                              claimed_service(d, calc.p) \in Range(calc.arg)}}

\* C14: name_without_project of a container of the project is its service
\* label, or without one the service of its name {project}_{service}_1.
C14_DerivedServiceName ==
    calc.fn = "name_without_project" => calc.out = claimed_service(calc.arg, calc.p)

\* C15: get_container() raises the not-running error when no container with
\* the project's and the service's labels is running, and otherwise returns
\* one of the running containers with these labels.
C15_GetContainerRunningOrError ==
    calc.fn = "get_container" =>
        LET running == {c \in containers :
                           /\ Get(c.labels, LABEL_PROJECT) = calc.p
                           /\ Get(c.labels, LABEL_SERVICE) = calc.arg
                           /\ c.status = STATUS_RUNNING}
        IN IF running = {} THEN calc.out = NotRunning
           ELSE calc.out.ok /\ \E c \in running : Handle(c) = calc.out.handle

\* get_container() raised the error while a container of the service existed
\* that was not running
C15_Witness ==
    /\ calc.fn = "get_container" /\ calc.out = NotRunning
    /\ \E c \in containers :
          /\ Get(c.labels, LABEL_PROJECT) = calc.p
          /\ Get(c.labels, LABEL_SERVICE) = calc.arg
          /\ c.status # STATUS_RUNNING

\* C17: loading fails exactly when the document is empty or has no top-level
\* services key, and the services of every document that loads have the keys
\* that up() iterates over.
C17_LoadFailsOrIterable ==
    (calc.fn = "load" /\ calc.done) =>
        /\ ~calc.out.ok <=>
              (calc.arg.type = "null" \/ calc.arg.keys = {} \/ "services" \notin calc.arg.keys)
        /\ calc.out.ok => has_keys(calc.out.config)

\* the string is ${FOO<sep>default}
IsDefaulting(value, sep) == value.braced /\ Len(value.text) >= 2 /\ value.text[2] = sep

\* the value of FOO when it is set (also to the empty string), else the default
ValueOrDefault(c) ==
    IF "FOO" \in DOMAIN c.environ THEN c.environ["FOO"] ELSE SubSeq(c.arg.text, 3, Len(c.arg.text))

\* C18: ${FOO:-default} expands to the value of FOO whenever FOO is set, also
\* to the empty string, and to default only when FOO is unset.
C18_ColonDashDefault ==
    (calc.fn = "expand_env_vars" /\ calc.done /\ IsDefaulting(calc.arg, ":-")) =>
        calc.out = ValueOrDefault(calc)

\* C19: ${FOO-default} expands to the empty string when FOO is set to the
\* empty string, to the value of FOO when it is set to any value, and to
\* default only when FOO is unset.
C19_DashDefault ==
    (calc.fn = "expand_env_vars" /\ calc.done /\ IsDefaulting(calc.arg, "-")) =>
        calc.out = ValueOrDefault(calc)

\* the binding that a port entry of one, two or three segments stands for
claimed_binding(parts) ==
    IF Len(parts) = 1 THEN Binding("none", 0, "", "")
    ELSE IF Len(parts) = 2
    THEN IF isdigit(parts[1]) THEN Binding("int", int(parts[1]), "", "") ELSE Binding("str", 0, parts[1], "")
    ELSE IF parts[2] = "" THEN Binding("ip_none", 0, "", parts[1]) ELSE Binding("ip_int", int(parts[2]), "", parts[1])

\* C20: the translation of a list of port entries does not fail; the container
\* port (the last segment) of every entry is a key of the result; and an entry
\* of one, two or three segments that no later entry of the same container
\* port replaces is mapped to no binding, to the host port, or to (ip, host
\* port or None).
C20_PortTranslation ==
    (calc.fn = "parse_ports" /\ calc.done) =>
        /\ calc.out.ok
        /\ \A k \in 1..Len(calc.arg) :
              LET parts == port_parts(calc.arg[k])
                  container_port == parts[Len(parts)]
              IN /\ container_port \in DOMAIN calc.out.result
                 /\ (/\ Len(parts) <= 3
                     /\ \A j \in (k + 1)..Len(calc.arg) :
                           port_parts(calc.arg[j])[Len(port_parts(calc.arg[j]))] # container_port)
                    => calc.out.result[container_port] = claimed_binding(parts)

\* C21: every volume entry host:container[:mode] yields a bind of its host
\* path (resolved against working_dir when it begins with "./") at its
\* container path with its mode, read-write when it gives none.
claimed_host_path(working_dir, host) ==
    IF Len(host) >= 2 /\ host[1] = "." /\ host[2] = "/"
    THEN working_dir \o <<"/">> \o SubSeq(host, 3, Len(host))
    ELSE host

C21_VolumeTranslation ==
    (calc.fn = "parse_volumes" /\ calc.done) =>
        \A k \in 1..Len(calc.arg.volumes) :
            LET entry == calc.arg.volumes[k]
                host == claimed_host_path(calc.arg.working_dir, entry[1])
            IN Len(entry) \in {2, 3} =>
                   /\ host \in DOMAIN calc.out
                   /\ calc.out[host] = [bind |-> entry[2],
                                        mode |-> IF Len(entry) = 3 THEN entry[3] ELSE <<"rw">>]

\* C22: in list form 'KEY=VAL' maps KEY to VAL, split at the first '=', and a
\* bare 'KEY' maps KEY to its value in the process environment or to the empty
\* string (the last item for a key decides); in map form a null value is
\* taken from the process environment, or is the empty string, and any other
\* value becomes its string form; the result has no other keys.
claimed_item(text, environ) ==
    IF \E n \in 1..Len(text) : text[n] = "="
    THEN LET n == CHOOSE k \in 1..Len(text) : text[k] = "=" /\ \A j \in 1..(k - 1) : text[j] # "="
         IN <<SubSeq(text, 1, n - 1), SubSeq(text, n + 1, Len(text))>>
    ELSE <<text, IF Len(text) = 1 /\ text[1] \in DOMAIN environ THEN environ[text[1]] ELSE <<>>>>

claimed_string(value) ==
    CASE value.type = "int" -> <<"1">>
      [] value.type = "bool" -> <<"True">>
      [] value.type = "str" -> value.s

C22_EnvironmentTranslation ==
    (calc.fn = "parse_environment" /\ calc.done) =>
        IF calc.arg.type = "list"
        THEN LET items == calc.arg.items
                 strs == {k \in 1..Len(items) : items[k].str}
                 kv(k) == claimed_item(items[k].text, calc.environ)
             IN /\ DOMAIN calc.out = {kv(k)[1] : k \in strs}
                /\ \A k \in strs :
                       (\A j \in strs : j > k => kv(j)[1] # kv(k)[1]) =>
                           calc.out[kv(k)[1]] = kv(k)[2]
        ELSE /\ DOMAIN calc.out = DOMAIN calc.arg.map
             /\ \A key \in DOMAIN calc.arg.map :
                    calc.out[key] =
                        IF calc.arg.map[key].type = "null"
                        THEN (IF key \in DOMAIN calc.environ THEN calc.environ[key] ELSE <<>>)
                        ELSE claimed_string(calc.arg.map[key])

C22_Witness ==
    /\ calc.fn = "parse_environment" /\ calc.done
    /\ calc.arg = EnvList(<<StrItem(<<"K", "=", "V", "=", "W">>), StrItem(<<"FOO">>)>>)
    /\ "FOO" \in DOMAIN calc.environ /\ calc.environ["FOO"] = <<"baz">>
    /\ calc.out[<<"K">>] = <<"V", "=", "W">>
    /\ calc.out[<<"FOO">>] = <<"baz">>

\* C23: every step of a remove_stopped() leaves the networks as they are and
\* removes at most containers that carry the label of its project and are not
\* running; it lists every container of the project; a listed container found
\* not running when it is checked is removed by the next step of the
\* operation; and a remove_stopped() that has returned normally has checked
\* every container it listed.
C23_RemoveStoppedFrame ==
    [][\A i \in Instances :
          (op'[i] = "remove_stopped" /\ did'[i] # did[i]) =>
              /\ networks' = networks
              /\ containers' \subseteq containers
              /\ \A c \in containers \ containers' :
                     Get(c.labels, LABEL_PROJECT) = proj[i] /\ c.status # STATUS_RUNNING
              /\ (pc[i] = "rs_is_running"
                     /\ \E c \in containers : c.id = Head(handles[i]).id /\ c.status # STATUS_RUNNING)
                    => pc'[i] = "rs_remove"
              /\ pc[i] = "rs_remove" => \A c \in containers' : c.id # Head(handles[i]).id
              /\ pc[i] = "idle" =>
                     {h.id : h \in Range(handles'[i])}
                         = {c.id : c \in {d \in containers : Get(d.labels, LABEL_PROJECT) = proj[i]}}
              /\ (pc'[i] = "idle" /\ res'[i] = Ok) => handles'[i] = <<>>]_vars

\* a remove_stopped() has returned: it removed a container that had exited and
\* left a running container of the project and the network of the project
C23_Witness ==
    \E i \in Instances :
        /\ Idle(i, "remove_stopped") /\ res[i] = Ok
        /\ \E k \in CallsOf(i, "remove") : did[i][k].changed
        /\ \E k \in CallsOf(i, "reload") : CallsOn(i, "remove", did[i][k].name) = {}
        /\ \E c \in containers : Get(c.labels, LABEL_PROJECT) = proj[i] /\ c.status = STATUS_RUNNING
        /\ networks_named(network_name(proj[i])) # {}

\* C24: TestCluster.is_running() returns True exactly when every service the
\* topology declares has a running container.
C24_IsRunningIffAllServicesRun ==
    calc.fn = "is_running" =>
        (calc.out <=> \A s \in ServiceNames(calc.p) :
                          \E c \in Labelled(calc.p, s) : c.status = STATUS_RUNNING)

\* C25: wait_for_service returns in the end; when it has returned it has made
\* at least one connection attempt, it returned True exactly when its last
\* attempt succeeded, and that was its first success; every failed attempt was
\* followed by one sleep of a second (so the clock has advanced by at least the
\* number of sleeps); and it returned False only with more than the timeout
\* elapsed.
C25_WaitTerminates ==
    /\ <>(calc.at = "returned")
    /\ [](calc.at = "returned" =>
            /\ calc.attempts >= 1
            /\ calc.failed = calc.attempts - (IF calc.out THEN 1 ELSE 0)
            /\ calc.sleeps = calc.failed
            /\ calc.now - calc.start >= calc.sleeps
            /\ ~calc.out => calc.now - calc.start > calc.timeout)

\* a call with timeout 2 has returned True at its third attempt
C25_Witness ==
    /\ calc.fn = "wait_for_service" /\ calc.at = "returned"
    /\ calc.out /\ calc.attempts = 3 /\ calc.timeout = 2

\* C26: add_registry_and_tag(image, scope) is registry + image + ':' + tag,
\* with the registry and the tag of the scope: DOCKER_REGISTRY and DOCKER_TAG
\* for the empty scope, DOCKER_UPSTREAM_REGISTRY and DOCKER_UPSTREAM_TAG for
\* UPSTREAM, DOCKER_TEST_REGISTRY and DOCKER_TEST_TAG for TEST; an unset
\* registry is the empty string and an unset tag is 'latest'; no other
\* variable has a part in the result.
claimed_variable(scope, suffix) ==
    CASE scope = <<>> -> <<"DOCKER", "_", suffix>>
      [] scope = <<"UPSTREAM">> -> <<"DOCKER", "_", "UPSTREAM", "_", suffix>>
      [] scope = <<"TEST">> -> <<"DOCKER", "_", "TEST", "_", suffix>>

C26_RegistryAndTagOfScope ==
    (calc.fn = "add_registry_and_tag" /\ calc.done) =>
        LET r == claimed_variable(calc.arg.scope, "REGISTRY")
            t == claimed_variable(calc.arg.scope, "TAG")
            registry == IF r \in DOMAIN calc.environ THEN calc.environ[r] ELSE <<>>
            tag == IF t \in DOMAIN calc.environ THEN calc.environ[t] ELSE <<"latest">>
        IN calc.out = registry \o calc.arg.image \o <<":">> \o tag

\* the call for scope UPSTREAM with the registry of UPSTREAM set, its tag unset,
\* and the variables of the other scopes set
C26_Witness ==
    /\ calc.fn = "add_registry_and_tag" /\ calc.done
    /\ calc.arg.scope = <<"UPSTREAM">>
    /\ DOMAIN calc.environ = RegistryVariables \ {<<"DOCKER", "_", "UPSTREAM", "_", "TAG">>}
    /\ calc.out = <<"value", "of", "DOCKER", "_", "UPSTREAM", "_", "REGISTRY",
                    "confluentinc", "/", "cp-base", ":", "latest">>

\* C27: CLASSPATH is the base classpath (CUB_CLASSPATH when it is set, else
\* the default) with '<dir>/*' appended, inside the quotes, for every
\* directory that CUB_CLASSPATH_DIRS lists, or that CUB_EXTRA_CLASSPATH lists
\* when CUB_CLASSPATH_DIRS is not set.
C27_ClasspathExtended ==
    (calc.fn = "cub_classpath" /\ calc.done) =>
        LET base == IF "CUB_CLASSPATH" \in DOMAIN calc.environ
                    THEN calc.environ["CUB_CLASSPATH"]
                    ELSE DefaultClasspath
            dirs == IF "CUB_CLASSPATH_DIRS" \in DOMAIN calc.environ
                    THEN calc.environ["CUB_CLASSPATH_DIRS"].entries
                    ELSE IF "CUB_EXTRA_CLASSPATH" \in DOMAIN calc.environ
                    THEN calc.environ["CUB_EXTRA_CLASSPATH"].entries
                    ELSE <<>>
        IN calc.out = [quoted |-> TRUE,
                       entries |-> base.entries \o [k \in 1..Len(dirs) |-> dirs[k] \o <<"/*">>]]

C29_NetworkAttachment ==
    \A c \in containers :
        LET p == c.labels[LABEL_PROJECT]
            service_name == c.labels[LABEL_SERVICE]
            service_config == get_service(p, service_name)
        IN IF "network_mode" \in DOMAIN service_config
           THEN /\ c.network = None
                /\ c.network_mode = service_config["network_mode"]
                /\ c.hostname = Get(service_config, "hostname")
           ELSE /\ c.network = p \o <<"default">>
                /\ c.network_mode = None
                /\ c.hostname = IF "hostname" \in DOMAIN service_config
                                THEN service_config["hostname"]
                                ELSE service_name

\* containers exist of a service with a network_mode and of a service with
\* neither a network_mode nor a hostname
C29_Witness ==
    /\ \E c \in containers : c.network_mode # None /\ c.network = None /\ c.hostname = None
    /\ \E c \in containers : c.network # None /\ c.hostname = c.labels[LABEL_SERVICE]

\* C30: containers() returns, once each, the containers that carry the label
\* of the project and, unless stopped is true, are running: with stopped true
\* all of them in whatever status; of these, the ones of the services asked
\* for, if any were; and never a container with the label of another project.
C30_ListingByLabelAndStatus ==
    calc.fn = "containers" =>
        LET returned == {calc.out[k].id : k \in 1..Len(calc.out)}
            matching == {c \in containers :
                            /\ LABEL_PROJECT \in DOMAIN c.labels
                            /\ c.labels[LABEL_PROJECT] = calc.p
                            /\ calc.stopped \/ c.status = STATUS_RUNNING
                            /\ calc.arg # None =>
                                   /\ LABEL_SERVICE \in DOMAIN c.labels
                                   /\ c.labels[LABEL_SERVICE] \in Range(calc.arg)}
        IN /\ returned = {c.id : c \in matching}
           /\ Cardinality(returned) = Len(calc.out)
           /\ \A k \in 1..Len(calc.out) : calc.out[k].labels[LABEL_PROJECT] = calc.p

\* containers(stopped=True) has returned a container that has exited, while a
\* running container of another project is there
C30_Witness ==
    /\ calc.fn = "containers" /\ calc.stopped /\ calc.arg = None
    /\ \E k \in 1..Len(calc.out) : \E c \in containers :
          c.id = calc.out[k].id /\ c.status = STATUS_EXITED
    /\ \E c \in containers : c.labels[LABEL_PROJECT] # calc.p /\ c.status = STATUS_RUNNING

\* C31: an up() that asks the runtime to create a container on the project
\* network has, before that, asked the runtime for the network (and created
\* it when there was none): it never ends with the runtime not finding the
\* network that a handle kept from an earlier up() names.
C31_NetworkReadOnEveryUp ==
    \A i \in Instances :
        op[i] = "up" =>
            /\ (CallsOf(i, "containers.run") # {}) => CallsOf(i, "networks.get") # {}
            /\ (pc[i] = "idle" /\ CallsOf(i, "networks.get") = {}) =>
                   res[i] # Err("RuntimeError", "network_not_found")

\* C32: what the braced pass puts in is not expanded again: a string ${expr}
\* expands to exactly what the braced substitution gives (the value of the
\* variable, or the default), e.g. ${FOO} with FOO set to $BAR expands to the
\* text $BAR, whatever BAR is.
C32_NoDoubleExpansion ==
    (calc.fn = "expand_env_vars" /\ calc.done /\ calc.arg.braced) =>
        calc.out = replace_braced(calc.arg.text, calc.environ)

\* the number of the requested service that the k-th call of instance i's up()
\* belongs to: the containers.get calls made up to it (0 before the first)
ServiceAt(i, k) == Cardinality({j \in CallsOf(i, "containers.get") : j <= k})

\* C33: up() first sees to the network and then takes the requested services
\* in the order given (the declared order when none is given), one at a time:
\* every network call comes before the first container call; the calls after
\* the n-th lookup are on the container of the n-th requested service; a lookup
\* for the next service follows a completed lookup, start or status check of
\* the one before, never a containers.run without its status check; and an
\* up() that returned normally has looked up every requested service.  With no
\* other actor on the runtime, the network exists while the services are taken.
C33_ServicesInOrder ==
    \A i \in Instances :
        op[i] = "up" =>
            /\ \A k \in 1..Len(did[i]) :
                  LET n == ServiceAt(i, k)
                  IN /\ did[i][k].call \in {"networks.get", "networks.create"} => n = 0
                     /\ n > 0 => /\ n <= Len(requested[i])
                                 /\ did[i][k].name = container_name(proj[i], requested[i][n])
                     /\ (n > 1 /\ did[i][k].call = "containers.get") =>
                            /\ did[i][k - 1].ok
                            /\ did[i][k - 1].call \in {"containers.get", "start", "reload"}
            /\ (pc[i] = "idle" /\ res[i] = Ok) =>
                   ServiceAt(i, Len(did[i])) = Len(requested[i])
            /\ pc[i] \notin {"idle", "networks_get", "networks_create"} =>
                   /\ netCache[i].id # 0
                   /\ networks_named(network_name(proj[i])) # {}

\* an up() of two services that created both containers has returned
C33_Witness ==
    /\ Idle(Alone, "up") /\ res[Alone] = Ok
    /\ Len(requested[Alone]) = 2
    /\ Cardinality(CallsOf(Alone, "containers.run")) = 2
    /\ Cardinality(CallsOf(Alone, "reload")) = 2

\* C34: when up() has returned normally, the last call it made on the container
\* of each requested service is one that saw the container running (the lookup
\* that found it running, or the status check after containers.run), also when
\* it started an existing container that was created or exited: a start call
\* is followed by a status check.
C34_RunningObservedAfterStart ==
    \A i \in Instances :
        (Idle(i, "up") /\ res[i] = Ok) =>
            \A n \in 1..Len(requested[i]) :
                LET on == {k \in 1..Len(did[i]) :
                              did[i][k].name = container_name(proj[i], requested[i][n])}
                IN /\ on # {}
                   /\ \A k \in on : (\A j \in on : j <= k) =>
                          /\ did[i][k].ok
                          /\ did[i][k].call \in {"containers.get", "reload"}

\* C35: an up() that failed in the status check after containers.run leaves the
\* container it created in the runtime, under the name of the service and with
\* the labels of project and service; and the up() after it that comes to that
\* service finds the container, starts it, and makes no containers.run for it.
C35_FailedCheckLeavesContainer ==
    \A i \in Instances :
        /\ (Idle(i, "up") /\ res[i].why = "exited_immediately") =>
               \E c \in Labelled(proj[i], Head(service_list[i])) :
                   /\ c.id = cur[i].id
                   /\ c.name = container_name(proj[i], Head(service_list[i]))
                   /\ c.status # STATUS_RUNNING
        /\ (op[i] = "up" /\ prev[i].op = "up" /\ prev[i].unverified # None) =>
               /\ CallsOn(i, "containers.run", prev[i].unverified) = {}
               /\ \A k \in CallsOn(i, "containers.get", prev[i].unverified) :
                      /\ did[i][k].ok
                      /\ k < Len(did[i]) =>
                             /\ did[i][k + 1] = Call("start", prev[i].unverified, TRUE, TRUE)
                             /\ \E c \in containers_named(prev[i].unverified) : TRUE

\* the up() after a failed status check has started the container that the
\* failed up() left, and returned
C35_Witness ==
    /\ Idle(Alone, "up") /\ res[Alone] = Ok
    /\ prev[Alone].op = "up" /\ prev[Alone].unverified # None
    /\ CallsOn(Alone, "start", prev[Alone].unverified) # {}
    /\ CallsOf(Alone, "containers.run") = {}

\* C36: an up() that raised while starting the n-th requested service has
\* undone nothing: it made no stop or remove call; the project network is
\* there; the container of every service before the n-th is there, and running
\* unless its process ended by itself; and it made no call for a service after
\* the n-th.
C36_NoRollback ==
    \A i \in Instances :
        (Idle(i, "up") /\ res[i] # Ok /\ ServiceAt(i, Len(did[i])) > 0) =>
            LET n == ServiceAt(i, Len(did[i]))
            IN /\ \A k \in 1..Len(did[i]) :
                      did[i][k].call \in {"networks.get", "networks.create", "containers.get",
                                          "start", "containers.run", "reload", "logs"}
               /\ networks_named(network_name(proj[i])) # {}
               /\ \A m \in 1..(n - 1) :
                      \E c \in containers_named(container_name(proj[i], requested[i][m])) :
                          exits = 0 => c.status = STATUS_RUNNING
               /\ \A m \in (n + 1)..Len(requested[i]) :
                      \A k \in 1..Len(did[i]) :
                          did[i][k].name # container_name(proj[i], requested[i][m])

\* an up() of two services has raised on the second, and the first is running
C36_Witness ==
    /\ Idle(Alone, "up") /\ res[Alone].kind = "RuntimeError"
    /\ ServiceAt(Alone, Len(did[Alone])) = 2
    /\ exits = 0
    /\ \E c \in containers_named(container_name(proj[Alone], requested[Alone][1])) :
           c.status = STATUS_RUNNING

\* C37: the operations of one project touch only containers labelled with that
\* project, whatever underscores the names hold: the container that an up()
\* which returned normally holds for its last service carries the label of the
\* calling project and of that service, and every container that down() or
\* remove_stopped() visits carries the label of the calling project.
C37_ProjectIsolation ==
    \A i \in Instances :
        /\ (Idle(i, "up") /\ res[i] = Ok) =>
               /\ Get(cur[i].labels, LABEL_PROJECT) = proj[i]
               /\ Get(cur[i].labels, LABEL_SERVICE) = requested[i][Len(requested[i])]
        /\ op[i] \in {"down", "remove_stopped"} =>
               \A k \in 1..Len(handles[i]) : Get(handles[i][k].labels, LABEL_PROJECT) = proj[i]

\* C38: an empty list of service names counts as no list: up(services=[]) takes
\* every declared service, in the declared order, and
\* containers(service_names=[]) returns every container of the project (the
\* running ones, or all with stopped=True), not none.
C38_EmptyListIsNoList ==
    /\ (calc.fn = "service_list" /\ calc.arg = Arg(<<>>)) =>
           /\ calc.out = service_keys(calc.p)
           /\ calc.out # <<>>
    /\ (calc.fn = "containers" /\ calc.given /\ calc.arg = <<>>) =>
           {calc.out[k].id : k \in 1..Len(calc.out)} =
               {c.id : c \in {d \in containers :
                                 /\ Get(d.labels, LABEL_PROJECT) = calc.p
                                 /\ calc.stopped \/ d.status = STATUS_RUNNING}}

\* containers(service_names=[]) has returned the containers of two services
C38_Witness ==
    /\ calc.fn = "containers" /\ calc.given /\ calc.arg = <<>>
    /\ Cardinality({Get(calc.out[k].labels, LABEL_SERVICE) : k \in 1..Len(calc.out)}) = 2

\* C39: when run_docker_command has ended, in whatever way, no container that
\* it created is left in the runtime; and when it returned, it made its calls
\* on the container in the order start, wait, logs, stop, remove.
C39_NoContainerLeftBehind ==
    \A i \in Instances :
        Idle(i, "run_docker_command") =>
            /\ \A c \in containers : DOCKER_TESTING_LABEL \notin DOMAIN c.labels
            /\ res[i] = Ok =>
                   [k \in 1..Len(did[i]) |-> did[i][k].call] = <<"start", "wait", "logs", "stop", "remove">>

\* C40: when start() has returned normally, its up() reused nothing (every
\* lookup found no container, and nothing was started but by containers.run),
\* the container of every declared service was created by this call, and so
\* was every container that carries the project's label.
C40_StartFromCleanProject ==
    (Idle(Alone, "up") /\ res[Alone] = Ok /\ prev[Alone].op = "remove_stopped") =>
        /\ CallsOf(Alone, "start") = {}
        /\ \A k \in CallsOf(Alone, "containers.get") : ~did[Alone][k].ok
        /\ \A s \in ServiceNames(proj[Alone]) :
               \E c \in containers_named(container_name(proj[Alone], s)) : c.creator = Alone
        /\ \A c \in containers : Get(c.labels, LABEL_PROJECT) = proj[Alone] => c.creator = Alone

====
